---- MODULE Spec2Model ----
(***************************************************************************)
(* Model of the TPX3 decoding pipeline: the pulse reader (reader.rs), the  *)
(* packet decoders and the per-pulse clustering / centroiding (pulse.rs,   *)
(* hit.rs).                                                                *)
(*                                                                         *)
(* 64-bit quantities are kept exact.  A picosecond time (i64) or a tot     *)
(* (u32) is a pair <<hi, lo>> standing for hi * BASE + lo, 0 <= lo < BASE. *)
(* A packet is a record of the bit fields the decoders extract from it.    *)
(***************************************************************************)
EXTENDS Integers, Sequences, FiniteSets, TLC

\* ------------------------------------------------------------------------
\* Exact wide integers
\* ------------------------------------------------------------------------
BASE == 10000000

Norm(h, l) == <<h + (l \div BASE), l % BASE>>

Big(n) == Norm(0, n)

BigAdd(a, b) == Norm(a[1] + b[1], a[2] + b[2])

BigSub(a, b) == Norm(a[1] - b[1], a[2] - b[2])

BigLess(a, b) == a[1] < b[1] \/ (a[1] = b[1] /\ a[2] < b[2])

BigLeq(a, b) == ~BigLess(b, a)

RECURSIVE BigMulSmall(_, _)
BigMulSmall(a, k) ==
    IF k <= 200 THEN Norm(a[1] * k, a[2] * k)
    ELSE BigAdd(BigMulSmall(BigMulSmall(a, k \div 100), 100), BigMulSmall(a, k % 100))

\* floor(a / k) for 0 < k <= 200 and a >= 0
BigDivSmall(a, k) == Norm((a[1] \div k), (((a[1] % k) * BASE) + a[2]) \div k)

\* a mod m for a >= 0, m > 0 (quotient estimated from the high limbs)
RECURSIVE BigMod(_, _)
BigMod(a, m) ==
    IF BigLess(a, m) THEN a
    ELSE LET q == a[1] \div (m[1] + 1)
         IN  BigMod(BigSub(a, BigMulSmall(m, IF q < 1 THEN 1 ELSE q)), m)

Min(a, b) == IF a < b THEN a ELSE b

\* the value of a wide integer below 2^31
Val(b) == b[1] * BASE + b[2]

\* ------------------------------------------------------------------------
\* Constants of the reader
\* ------------------------------------------------------------------------
TDC_LIMIT == <<10737418, 2400000>>   \* 107_374_182_400_000 ps
HIT_LIMIT == <<2684354, 5600000>>    \*  26_843_545_600_000 ps
ROLL == <<2600000, 0>>               \*  26_000_000_000_000 ps
CHECK == <<10000, 0>>                \*     100_000_000_000 ps
U32_MOD == <<429, 4967296>>          \* 2^32, the width of Hit.tot

\* packets per buffer fill (the program reads 1_000_000 bytes = 125000 packets)
BUFFER_PACKETS == 2
MaxFileLen == 4
MaxExtraCalls == 2

\* ------------------------------------------------------------------------
\* Data model
\* ------------------------------------------------------------------------
NewHit(index, toa, tot, col, row) ==
    [index |-> index, toa |-> toa, tot |-> tot, col |-> col, row |-> row,
     label |-> 0, size |-> 0, col_offset |-> 0, row_offset |-> 0]

DefaultPulse == [time |-> Big(0), hits |-> <<>>, triggers |-> 0, clusters |-> 0]

add_hit(p, toa, tot, col, row) ==
    [p EXCEPT !.hits = Append(p.hits, NewHit(Len(p.hits), toa, tot, col, row))]

\* ------------------------------------------------------------------------
\* Packets: the bit fields of a 64-bit word
\*   nib    bits 60..63
\*   TDC :  trig bits 44..55, coarse bits 12..43 (wide), top = p & 0xE00,
\*          fine4 bits 5..8
\*   Hit :  dcol bits 53..59, spix bits 47..52, pix bits 44..46,
\*          ctoa bits 30..43, tot10 bits 20..29, ftoa bits 16..19,
\*          spidr bits 0..15
\*   Blob:  coff bits 48..55, roff bits 40..47, tc bits 16..39, size bits 0..15
\*   other: magic = (low 4 bytes are the ASCII bytes TPX3)
\* ------------------------------------------------------------------------
TdcPacket(trig, coarse, top, fine4) ==
    [nib |-> 6, trig |-> trig, coarse |-> coarse, top |-> top, fine4 |-> fine4]

HitPacket(dcol, spix, pix, ctoa, tot10, ftoa, spidr) ==
    [nib |-> 11, dcol |-> dcol, spix |-> spix, pix |-> pix, ctoa |-> ctoa,
     tot10 |-> tot10, ftoa |-> ftoa, spidr |-> spidr]

BlobPacket(coff, roff, tc, size) ==
    [nib |-> 12, coff |-> coff, roff |-> roff, tc |-> tc, size |-> size]

OtherPacket(nib, magic) == [nib |-> nib, magic |-> magic]

\* (fine4 - 1) wrapping, << 9, / 12, & 0x1FF.  For fine4 = 0 the wrapped value
\* is 2^64 - 512, whose twelfth has low nine bits 298.
expansion_fine(f) == IF f = 0 THEN 298 ELSE (((f - 1) * 512) \div 12) % 512

add_bit(f) == IF f # 0 /\ ((f - 1) * 512) % 12 = 0 /\ (f - 1) * 512 < 1023 THEN 0 ELSE 1

\* <<tdc in ps, trigger number>>
parse_tdc_packet(p) ==
    LET trigtime == p.top + expansion_fine(p.fine4)
        units == BigAdd(BigMulSmall(p.coarse, 1000), Big((trigtime * 1000) \div 4096))
    IN  <<BigAdd(BigMulSmall(units, 25), Big(add_bit(p.fine4))), p.trig>>

\* parse_hit_packet with bits 52..58 taken for the column and bits 45..51 for
\* the row
parse_hit_packet_7f(p) ==
    LET col == (p.spix \div 32) + 2 * (p.dcol % 64) + (p.pix \div 4)
        row == (p.pix \div 2) + 4 * (p.spix % 32) + (p.pix % 4)
        tot == p.tot10 * 25
        tmp == 15 - p.ftoa
        coa == BigMulSmall(Big(p.ctoa * 16 + tmp), 25000)
        toa == BigAdd(BigMulSmall(Big(409600000), p.spidr), BigDivSmall(coa, 16))
    IN  <<col, row, Big(tot), toa>>

\* <<col, row, tot, toa>>
parse_hit_packet(p) ==
    LET col == 2 * p.dcol + (p.pix \div 4)
        row == 4 * p.spix + (p.pix % 4)
        tot == p.tot10 * 25
        tmp == 15 - p.ftoa
        coa == BigMulSmall(Big(p.ctoa * 16 + tmp), 25000)
        toa == BigAdd(BigMulSmall(Big(409600000), p.spidr), BigDivSmall(coa, 16))
    IN  <<col, row, Big(tot), toa>>

\* (tdc < self.ptdc) as i64
tdc_rolled_leq(tdc, ptdc_) == IF BigLeq(tdc, ptdc_) THEN 1 ELSE 0

tdc_rolled(tdc, ptdc_) == IF BigLess(tdc, ptdc_) THEN 1 ELSE 0

\* the value returned at end of file and the pulse left in the reader
flush_keep(p) ==
    IF p.hits = <<>> THEN [some |-> FALSE, left |-> p] ELSE [some |-> TRUE, left |-> p]

flush(p) ==
    IF p.hits = <<>> THEN [some |-> FALSE, left |-> p] ELSE [some |-> TRUE, left |-> DefaultPulse]

roll_no_window(toa, ptoa_, hrol, tdc, trol) ==
    IF BigLess(BigAdd(toa, CHECK), ptoa_) THEN 1 ELSE 0

\* 1 if the ToA counter rolled over, else 0
roll(toa, ptoa_, hrol, tdc, trol) ==
    IF BigLess(BigAdd(toa, CHECK), ptoa_)
       /\ BigLess(BigSub(BigAdd(toa, BigMulSmall(HIT_LIMIT, hrol + 1)),
                         BigAdd(tdc, BigMulSmall(TDC_LIMIT, trol))), ROLL)
    THEN 1 ELSE 0

\* the u64 product cast to u32
blob_tot_summand(tc) == BigMod(BigMulSmall(Big(tc), 1024 * 25), U32_MOD)

\* the hit after update_with_blob_packet; the u32 += wraps in a release build
update_with_blob_packet(h, p) ==
    [h EXCEPT !.tot = BigMod(BigAdd(h.tot, blob_tot_summand(p.tc)), U32_MOD),
              !.col_offset = p.coff, !.row_offset = p.roff, !.size = p.size]

\* the u32 += overflows (a debug build aborts there)
blob_overflows(h, p) == BigLeq(U32_MOD, BigAdd(h.tot, blob_tot_summand(p.tc)))

\* ------------------------------------------------------------------------
\* Pulse::label_hits and Pulse::centroid
\* ------------------------------------------------------------------------
BigAbs(a) == IF a[1] < 0 THEN BigSub(Big(0), a) ELSE a

Abs(x) == IF x < 0 THEN 0 - x ELSE x

\* impl PartialEq for Hit
HitEq(a, b) == a.toa = b.toa /\ a.col = b.col /\ a.row = b.row

Contains(s, h) == \E i \in 1..Len(s) : HitEq(s[i], h)

\* u8 wrapping_sub
wrapping_sub(a, b) == (a - b) % 256

is_proximal(self, other) ==
    LET dc == wrapping_sub(self.col, other.col)
        dr == wrapping_sub(self.row, other.row)
    IN  \/ dc = 1 /\ dr \in {0, 1, 255}
        \/ dc = 0 /\ dr \in {1, 255}
        \/ dc = 255 /\ dr \in {0, 1, 255}

\* the filter that builds `subset` for the seed `hit`
candidate(hit, o) ==
    /\ BigLess(BigAbs(BigSub(hit.toa, o.toa)), Big(1000000))
    /\ o.label = 0
    /\ Abs(hit.col - o.col) < 15
    /\ Abs(hit.row - o.row) < 15

\* the inner for loop: push the proximal hits not yet in checked or active
RECURSIVE push_proximal(_, _, _, _, _)
push_proximal(subset, k, check, active, checked) ==
    IF k > Len(subset) THEN active
    ELSE LET prox == subset[k]
         IN  IF is_proximal(prox, check) /\ ~(Contains(checked, prox) \/ Contains(active, prox))
             THEN push_proximal(subset, k + 1, check, Append(active, prox), checked)
             ELSE push_proximal(subset, k + 1, check, active, checked)

\* the while loop over `active`; returns the hits with the labels written
RECURSIVE flood(_, _, _, _, _)
flood(hits, subset, active, checked, current_label) ==
    IF active = <<>> THEN hits
    ELSE LET check == active[Len(active)]
             popped == SubSeq(active, 1, Len(active) - 1)
         IN  flood([hits EXCEPT ![check.index + 1].label = current_label],
                   subset,
                   push_proximal(subset, 1, check, popped, checked),
                   Append(checked, check),
                   current_label)

\* the for loop over the seeds; ohits is the clone taken before the loop
RECURSIVE label_loop(_, _, _, _)
label_loop(hits, ohits, i, current_label) ==
    IF i > Len(hits) THEN [hits |-> hits, clusters |-> current_label - 1]
    ELSE IF hits[i].label = 0
         THEN LET hit == hits[i]
                  subset == SelectSeq(ohits, LAMBDA o : candidate(hit, o))
              IN  label_loop(flood(hits, subset, <<hit>>, <<>>, current_label),
                             ohits, i + 1, current_label + 1)
         ELSE label_loop(hits, ohits, i + 1, current_label)

\* label_hits with current_label starting at 0
label_hits_from_zero(p) ==
    LET r == label_loop(p.hits, p.hits, 1, 0)
    IN  [p EXCEPT !.hits = r.hits, !.clusters = r.clusters]

label_hits(p) ==
    LET r == label_loop(p.hits, p.hits, 1, 1)
    IN  [p EXCEPT !.hits = r.hits, !.clusters = r.clusters]

RECURSIVE BigSum(_)
BigSum(s) == IF s = <<>> THEN Big(0) ELSE BigAdd(s[1], BigSum(Tail(s)))

RECURSIVE BigMin(_)
BigMin(s) ==
    IF Len(s) = 1 THEN s[1]
    ELSE LET m == BigMin(Tail(s)) IN IF BigLess(m, s[1]) THEN m ELSE s[1]

\* floor(n / d) for 0 <= n < 256 * d, d > 0
BigQuot(n, d) ==
    CHOOSE q \in 0..255 : BigLeq(BigMulSmall(d, q), n) /\ BigLess(n, BigMulSmall(d, q + 1))

Tots(cluster) == [k \in 1..Len(cluster) |-> cluster[k].tot]
Toas(cluster) == [k \in 1..Len(cluster) |-> cluster[k].toa]
Cols(cluster) == [k \in 1..Len(cluster) |-> cluster[k].col]
Rows(cluster) == [k \in 1..Len(cluster) |-> cluster[k].row]

\* (sum of coord * tot) / tot in f64, cast to u8: <<integer part, fract * 255>>.
\* A zero divisor gives NaN, which casts to 0.
weighted_mean(cluster, coords, tot) ==
    IF tot = Big(0) THEN <<0, 0>>
    ELSE LET num == BigSum([k \in 1..Len(cluster) |-> BigMulSmall(cluster[k].tot, coords[k])])
             q == BigQuot(num, tot)
             rem == BigSub(num, BigMulSmall(tot, q))
         IN  <<q, BigQuot(BigMulSmall(rem, 255), tot)>>

cluster_ids_exclusive(clusters) == 1..(clusters - 1)

\* the cluster ids the loop of centroid goes through
cluster_ids(clusters) == 1..clusters

\* centroid with label: counter instead of counter + 1
centroid_hit_label_counter(cluster, counter) ==
    LET tot == BigMod(BigSum(Tots(cluster)), U32_MOD)
        mrow == weighted_mean(cluster, Rows(cluster), tot)
        mcol == weighted_mean(cluster, Cols(cluster), tot)
    IN  [toa |-> BigMin(Toas(cluster)),
         tot |-> tot,
         col |-> mcol[1], row |-> mrow[1],
         index |-> counter, label |-> counter,
         size |-> Len(cluster) % 65536,
         col_offset |-> mcol[2], row_offset |-> mrow[2]]

\* the hit centroid builds for one non-empty cluster
centroid_hit(cluster, counter) ==
    LET tot == BigMod(BigSum(Tots(cluster)), U32_MOD)
        mrow == weighted_mean(cluster, Rows(cluster), tot)
        mcol == weighted_mean(cluster, Cols(cluster), tot)
    IN  [toa |-> BigMin(Toas(cluster)),
         tot |-> tot,
         col |-> mcol[1], row |-> mrow[1],
         index |-> counter, label |-> counter + 1,
         size |-> Len(cluster) % 65536,
         col_offset |-> mcol[2], row_offset |-> mrow[2]]

RECURSIVE centroid_loop(_, _, _, _)
centroid_loop(p, i, hits, counter) ==
    IF i \notin cluster_ids(p.clusters) THEN [hits |-> hits, counter |-> counter]
    ELSE LET cluster == SelectSeq(p.hits, LAMBDA h : h.label = i)
         IN  IF Len(cluster) % 65536 = 0
             THEN centroid_loop(p, i + 1, hits, counter)
             ELSE centroid_loop(p, i + 1, Append(hits, centroid_hit(cluster, counter + 1)),
                                counter + 1)

centroid(p) ==
    LET r == centroid_loop(p, 1, <<>>, 0)
    IN  [time |-> p.time, hits |-> r.hits, triggers |-> p.triggers, clusters |-> r.counter]

\* ------------------------------------------------------------------------
\* Encoders: Hit::to_hit_packet, Hit::to_blob_packet, Pulse::to_tdc_packet,
\* Pulse::to_bytes.  A packet is built field by field; where the code ORs a
\* value that is wider than its field, the bits that spill are ORed into the
\* neighbouring field.
\* ------------------------------------------------------------------------
\* a mod m for a >= 0 and 0 < m <= 40000
BigModSmall(a, m) == (((a[1] % m) * (BASE % m)) + a[2]) % m

\* <<floor(a / m), a mod m>> added to the quotient q, for a >= 0, m > 0
RECURSIVE BigDivMod(_, _, _)
BigDivMod(a, m, q) ==
    IF BigLess(a, m) THEN <<q, a>>
    ELSE LET e == IF m[1] > 0 THEN a[1] \div (m[1] + 1)
                  ELSE IF a[1] > 0 THEN a[1] * (BASE \div (m[2] + 1))
                  ELSE a[2] \div m[2]
             k == IF e < 1 THEN 1 ELSE e
         IN  BigDivMod(BigSub(a, BigMulSmall(m, k)), m, q + k)

\* bitwise or of two naturals
RECURSIVE BitOr(_, _)
BitOr(a, b) ==
    IF a = 0 THEN b
    ELSE IF b = 0 THEN a
    ELSE (IF a % 2 = 1 \/ b % 2 = 1 THEN 1 ELSE 0) + 2 * BitOr(a \div 2, b \div 2)

fine_units_unfixed(ps) == ps \div (25000 \div 16)

\* `remainder`: the 18 bits of coarse and fine ToA for ps < 409_600_000
fine_units(ps) ==
    LET remainder == ps \div (25000 \div 16)
    IN  remainder - (remainder \div 3125)

\* for 0 <= self.toa; col and row are u8, tot is u32
to_hit_packet(h) ==
    LET toa == BigMod(h.toa, HIT_LIMIT)
        pix == ((h.col % 2) * 4) + (h.row % 4)
        col_bits == h.col - (pix \div 4)               \* even: bit 52 stays clear
        row_bits == h.row - (pix % 4)                  \* multiple of 4: bits 45, 46 stay clear
        tot_bits == BigModSmall(BigDivSmall(h.tot, 25), 1024)
        gt == BigDivMod(toa, <<40, 9600000>>, 0)       \* / and % 409_600_000
        global_time == gt[1]
        remainder == fine_units(Val(gt[2]))
        fta_bit == 15 - (remainder % 16)
        cta_bit == remainder \div 16                   \* 15 bits when remainder = 2^18
    IN  HitPacket(col_bits \div 2, row_bits \div 4, BitOr(pix, cta_bit \div 16384),
                  cta_bit % 16384, tot_bits, fta_bit, global_time)

\* (self.tot / 1024) & (0x00FF_FFFF << 16): the shift binds tighter than the
\* mask, so bits 16..21 of tot / 1024 land, unshifted, in the field at bits 16..39
to_blob_packet(h) ==
    BlobPacket(h.col_offset, h.row_offset,
               BigDivMod(BigDivSmall(BigDivSmall(h.tot, 32), 32), Big(65536), 0)[1] % 16777216,
               h.size)

\* for 0 <= self.time and self.triggers < 4096
to_tdc_packet(p) ==
    LET add == BigModSmall(p.time, 25) + 1
        tdc == BigDivSmall(BigMod(p.time, TDC_LIMIT), 25)
        coarsetime == BigDivSmall(BigDivSmall(tdc, 10), 100)
        trigtime == (BigSub(tdc, BigMulSmall(coarsetime, 1000))[2] * 4096) \div 1000
        upper == (trigtime \div 512) % 8
        lower == ((((trigtime % 512) * 12) \div 512) + add) % 256   \* at most 36
    IN  TdcPacket(p.triggers % 4096, coarsetime,
                  512 * BitOr(upper, (lower \div 16) % 8), lower % 16)

RECURSIVE hits_to_bytes(_)
hits_to_bytes(hits) ==
    IF hits = <<>> THEN <<>>
    ELSE <<to_hit_packet(hits[1])>>
         \o (IF hits[1].size > 1 THEN <<to_blob_packet(hits[1])>> ELSE <<>>)
         \o hits_to_bytes(Tail(hits))

to_bytes(p) == <<to_tdc_packet(p)>> \o hits_to_bytes(p.hits)

\* the hit and blob arms of the decoding loop, applied to packets in order
\* (raw ToA: no rollover is added)
RECURSIVE decode_packets(_, _)
decode_packets(bytes, p) ==
    IF bytes = <<>> THEN p
    ELSE LET b == bytes[1]
             dec == parse_hit_packet(b)
             n == Len(p.hits)
         IN  decode_packets(Tail(bytes),
                 IF b.nib = 11 THEN add_hit(p, dec[4], dec[3], dec[1], dec[2])
                 ELSE IF b.nib = 12 /\ n > 0
                      THEN [p EXCEPT !.hits[n] = update_with_blob_packet(p.hits[n], b)]
                 ELSE p)

\* ------------------------------------------------------------------------
\* Input alphabet: the packets a file is made of
\* ------------------------------------------------------------------------
TdcA == TdcPacket(1, Big(40000), 0, 1)         \* decodes to 1_000_000_000 ps
TdcB == TdcPacket(2, Big(0), 0, 2)             \* decodes to 251 ps
TdcZ == TdcPacket(3, Big(0), 0, 1)             \* decodes to 0 ps
HitLo == HitPacket(5, 5, 5, 8, 4, 7, 0)        \* col 11, row 21, toa 212_500 ps
HitHi == HitPacket(6, 5, 2, 0, 8, 15, 65000)   \* col 12, row 22, toa 26_624_000_000_000 ps
BlobS == BlobPacket(3, 200, 2, 3)
BlobL == BlobPacket(7, 9, 335544, 5)           \* tc * 25600 exceeds 32 bits
Skip4 == OtherPacket(4, FALSE)
Header == OtherPacket(0, TRUE)
Bad == OtherPacket(5, FALSE)

Packets == {TdcA, TdcB, TdcZ, HitLo, HitHi, BlobS, BlobL, Skip4, Header, Bad}

Files == UNION {[1..n -> Packets] : n \in 0..MaxFileLen}

\* ------------------------------------------------------------------------
\* State
\* ------------------------------------------------------------------------
VARIABLES
    file,          \* the packets of the .tpx3 file
    fpos,          \* file cursor, in packets
    buffer,        \* the valid part of the read buffer (buffer_bytes = 8 * Len)
    buffer_index,  \* in bytes
    pulse, trolls, hrolls, ptdc, ptoa, ptri,
    pc,            \* "idle" between calls of next(), "loop" inside one, "panic"
    out,           \* what the calls of next() returned, in order
    cpulse,        \* the pulse handed to label_hits / centroid
    orig,          \* that pulse as it was decoded
    phase,         \* "off", "decoded", "labelled", "centroided", "written", "reread"
    codec_in,      \* what is handed to an encoder or a decoder
    codec_mid,     \* what it returned
    codec_out,     \* what the inverse conversion returned for that
    stream,        \* the (pulse, coordinate) pairs the archive writer has taken
    spans,         \* row index -> PixelSpan
    rows_written, direction, index, offset, header,
    ibd_file,      \* the bytes of the .ibd file
    imzml_file,    \* the text of the .imzml file, in tokens
    spectra,       \* the IMZMLSpectrum records written, in order
    wpc,           \* position in stream_convert_and_save
    tdc_reader,    \* the fields of the TDCReader
    tdc_out,       \* what TDCReader::next returned, in order (None left out)
    passes,        \* the locals of to_pulse_passes: prev_tdc, pulse_rows, row
    coordinates,   \* meta.coordinates
    ipc,           \* position in auto_generate_coordinates
    pairs,         \* the (pulse, coordinate) pairs the rasterizers have taken
    tic_buffer,    \* the buffer of to_buffer: index -> count, zeros left out
    mass_buffers,  \* the buffers of times_to_buffers, likewise
    rpc,           \* which rasterizer takes the next step
    pixel_in,      \* the m/z values of a Pixel handed to to_vecs
    vecs,          \* what to_vecs returned
    pad_in,        \* the spectrum handed to zero_pad
    pad_out,       \* what zero_pad returned
    collection,    \* centroid_cluster_compress: the pulses of the batch at hand
    labelled,      \* the positions of the batch whose label_hits has finished
    pieces,        \* position of the batch -> the bytes its worker produced
    taken,         \* the pulses taken from the decoder so far, in order
    tpx3c_file,    \* the bytes written to the .tpx3c file
    cpc,           \* position in centroid_cluster_compress
    mask_buffer,   \* to_masking_image: pixel index -> count, zeros left out
    data_len,      \* to_masking_image: the pulses counted
    mask_runs,     \* the pulses to_masking_image has taken, as runs
    mpc            \* position in to_masking_image

vars == <<file, fpos, buffer, buffer_index, pulse, trolls, hrolls, ptdc, ptoa, ptri,
          pc, out, cpulse, orig, phase, codec_in, codec_mid, codec_out,
          stream, spans, rows_written, direction, index, offset, header,
          ibd_file, imzml_file, spectra, wpc,
          tdc_reader, tdc_out, passes, coordinates, ipc,
          pairs, tic_buffer, mass_buffers, rpc,
          pixel_in, vecs, pad_in, pad_out,
          collection, labelled, pieces, taken, tpx3c_file, cpc,
          mask_buffer, data_len, mask_runs, mpc>>

clusterVars == <<cpulse, orig, phase>>

codecVars == <<codec_in, codec_mid, codec_out>>

CodecIdle ==
    /\ codec_in = [kind |-> "none"]
    /\ codec_mid = [kind |-> "none"]
    /\ codec_out = [kind |-> "none"]

archiveVars == <<stream, spans, rows_written, direction, index, offset, header,
                 ibd_file, imzml_file, spectra, wpc>>

\* no archive writer was created
ArchiveIdle ==
    /\ stream = <<>> /\ spans = <<>> /\ rows_written = <<>> /\ direction = "Right"
    /\ index = 0 /\ offset = 0
    /\ header = [sha1sum |-> <<>>, number_of_spectra |-> 0]
    /\ ibd_file = <<>> /\ imzml_file = <<>> /\ spectra = <<>> /\ wpc = "off"

imageVars == <<tdc_reader, tdc_out, passes, coordinates, ipc,
               pairs, tic_buffer, mass_buffers, rpc>>

\* TDCReader::new
NewTdcReader ==
    [fpos |-> 0, buffer |-> <<>>, buffer_index |-> 0, trolls |-> 0,
     tdc_full |-> Big(0), ptdc |-> Big(0), first_loop |-> TRUE]

\* the first line of to_pulse_passes
NewPasses == [prev_tdc |-> Big(0), pulse_rows |-> <<>>, row |-> <<>>]

\* no image is being generated
ImageIdle ==
    /\ tdc_reader = NewTdcReader /\ tdc_out = <<>> /\ passes = NewPasses
    /\ coordinates = <<>> /\ ipc = "off"
    /\ pairs = <<>> /\ tic_buffer = <<>> /\ mass_buffers = <<>> /\ rpc = "off"

reportVars == <<pixel_in, vecs, pad_in, pad_out,
                collection, labelled, pieces, taken, tpx3c_file, cpc,
                mask_buffer, data_len, mask_runs, mpc>>

\* nothing has been handed to to_vecs
PixelIdle ==
    /\ pixel_in = [head |-> <<0, 0>>, copies |-> 0, rest |-> <<>>]
    /\ vecs = [status |-> "none", mzs |-> <<>>, ints |-> <<>>]

\* nothing has been handed to zero_pad
PadIdle ==
    /\ pad_in = [times |-> <<>>, intensities |-> <<>>]
    /\ pad_out = [status |-> "none", times |-> <<>>, intensities |-> <<>>]

\* centroid_cluster_compress has not been called
CompressIdle ==
    /\ collection = <<>> /\ labelled = {} /\ pieces = <<>> /\ taken = <<>>
    /\ tpx3c_file = <<>>

\* to_masking_image has not been called
MaskIdle == mask_buffer = <<>> /\ data_len = 0 /\ mask_runs = <<>>

ReportIdle ==
    /\ PixelIdle /\ PadIdle
    /\ CompressIdle /\ cpc = "off"
    /\ MaskIdle /\ mpc = "off"

buffer_bytes == 8 * Len(buffer)

\* number of packets of the file the decoding loop has gone through
Consumed == fpos - Len(buffer) + (buffer_index \div 8)

SomeItem(p, why) == [some |-> TRUE, pulse |-> p, at |-> Consumed, why |-> why]
NoneItem == [some |-> FALSE, pulse |-> DefaultPulse, at |-> Consumed, why |-> "eof"]

Nones == Cardinality({i \in 1..Len(out) : ~out[i].some})

Init ==
    /\ file \in Files
    /\ fpos = 0
    /\ buffer = <<>>
    /\ buffer_index = 0
    /\ pulse = DefaultPulse
    /\ trolls = 0 /\ hrolls = 0
    /\ ptdc = Big(0) /\ ptoa = Big(0) /\ ptri = 0
    /\ pc = "idle"
    /\ out = <<>>
    /\ cpulse = DefaultPulse /\ orig = DefaultPulse /\ phase = "off"
    /\ CodecIdle
    /\ ArchiveIdle
    /\ ImageIdle
    /\ ReportIdle

\* ------------------------------------------------------------------------
\* TPX3Reader::next
\* ------------------------------------------------------------------------
\* The head of next(): stamp the open pulse, refill the buffer when it is
\* used up, return at end of file.  bi is buffer_index on entry.
Enter(bi) ==
    LET p1 == [pulse EXCEPT !.time = BigAdd(ptdc, BigMulSmall(TDC_LIMIT, trolls)),
                            !.triggers = ptri]
        n == Min(BUFFER_PACKETS, Len(file) - fpos)
    IN  IF bi = 0
        THEN IF n = 0
             THEN /\ buffer' = <<>>
                  /\ buffer_index' = 0
                  /\ fpos' = fpos
                  /\ pc' = "idle"
                  /\ pulse' = flush(p1).left
                  /\ out' = Append(out, IF flush(p1).some
                                        THEN [SomeItem(p1, "eof") EXCEPT !.at = fpos]
                                        ELSE [NoneItem EXCEPT !.at = fpos])
             ELSE /\ buffer' = SubSeq(file, fpos + 1, fpos + n)
                  /\ buffer_index' = 0
                  /\ fpos' = fpos + n
                  /\ pulse' = p1
                  /\ pc' = "loop"
                  /\ out' = out
        ELSE /\ pulse' = p1
             /\ pc' = "loop"
             /\ UNCHANGED <<buffer, buffer_index, fpos, out>>

\* a caller invokes next()
Call ==
    /\ pc = "idle"
    /\ Nones <= MaxExtraCalls
    /\ Enter(buffer_index)
    /\ UNCHANGED <<file, trolls, hrolls, ptdc, ptoa, ptri, clusterVars, codecVars, archiveVars, imageVars, reportVars>>

InLoop == pc = "loop" /\ buffer_index < buffer_bytes

Packet == buffer[(buffer_index \div 8) + 1]

\* 0x6: a TDC packet
StepTdc ==
    /\ InLoop /\ Packet.nib = 6
    /\ LET dec == parse_tdc_packet(Packet)
           tdc == dec[1]
       IN  /\ trolls' = trolls + tdc_rolled(tdc, ptdc)
           /\ ptri' = dec[2]
           /\ ptdc' = tdc
           /\ buffer_index' = buffer_index + 8
           /\ pulse' = DefaultPulse
           /\ IF ptdc = Big(0)
              THEN /\ pc' = "loop"
                   /\ out' = out
              ELSE /\ pc' = "idle"
                   /\ out' = Append(out, [SomeItem(pulse, "tdc") EXCEPT !.at = Consumed + 1])
    /\ UNCHANGED <<file, fpos, buffer, hrolls, ptoa, clusterVars, codecVars, archiveVars, imageVars, reportVars>>

\* 0xB: a hit packet
StepHit ==
    /\ InLoop /\ Packet.nib = 11
    /\ LET dec == parse_hit_packet(Packet)
           rtoa == dec[4]
           h2 == hrolls + roll(rtoa, ptoa, hrolls, ptdc, trolls)
       IN  /\ hrolls' = h2
           /\ ptoa' = rtoa
           /\ pulse' = add_hit(pulse, BigAdd(rtoa, BigMulSmall(HIT_LIMIT, h2)),
                               dec[3], dec[1], dec[2])
    /\ buffer_index' = buffer_index + 8
    /\ UNCHANGED <<file, fpos, buffer, trolls, ptdc, ptri, pc, out, clusterVars, codecVars, archiveVars, imageVars, reportVars>>

\* 0xC: a blob packet; hits.last_mut().unwrap() aborts on an empty pulse, and
\* an overflowing u32 += either wraps or aborts, depending on the build
StepBlob ==
    /\ InLoop /\ Packet.nib = 12
    /\ buffer_index' = buffer_index + 8
    /\ IF pulse.hits = <<>>
       THEN pc' = "panic" /\ pulse' = pulse
       ELSE LET n == Len(pulse.hits)
                wrapped == [pulse EXCEPT !.hits[n] = update_with_blob_packet(pulse.hits[n], Packet)]
            IN  \E abort \in (IF blob_overflows(pulse.hits[n], Packet) THEN BOOLEAN ELSE {FALSE}) :
                    IF abort THEN pc' = "panic" /\ pulse' = pulse
                             ELSE pc' = pc /\ pulse' = wrapped
    /\ UNCHANGED <<file, fpos, buffer, trolls, hrolls, ptdc, ptoa, ptri, out, clusterVars, codecVars, archiveVars, imageVars, reportVars>>

\* 0x4 | 0x7: ignored
StepIgnored ==
    /\ InLoop /\ Packet.nib \in {4, 7}
    /\ buffer_index' = buffer_index + 8
    /\ UNCHANGED <<file, fpos, buffer, pulse, trolls, hrolls, ptdc, ptoa, ptri, pc, out,
                   clusterVars, codecVars, archiveVars, imageVars, reportVars>>

always_tpx3(p) == TRUE

\* &bs[..4] == b"TPX3"
is_tpx3(p) == "magic" \in DOMAIN p /\ p.magic

\* anything else: assert!(&bs[..4] == b"TPX3")
StepOther ==
    /\ InLoop /\ Packet.nib \notin {6, 11, 12, 4, 7}
    /\ buffer_index' = buffer_index + 8
    /\ pc' = IF is_tpx3(Packet) THEN pc ELSE "panic"
    /\ UNCHANGED <<file, fpos, buffer, pulse, trolls, hrolls, ptdc, ptoa, ptri, out,
                   clusterVars, codecVars, archiveVars, imageVars, reportVars>>

\* the buffer is used up: buffer_index = 0 and next() runs again
LoopEnd ==
    /\ pc = "loop" /\ buffer_index = buffer_bytes
    /\ Enter(0)
    /\ UNCHANGED <<file, trolls, hrolls, ptdc, ptoa, ptri, clusterVars, codecVars, archiveVars, imageVars, reportVars>>

Next == Call \/ StepTdc \/ StepHit \/ StepBlob \/ StepIgnored \/ StepOther \/ LoopEnd

Spec == Init /\ [][Next]_vars

\* ------------------------------------------------------------------------
\* What the file says, independently of the reader's registers
\* ------------------------------------------------------------------------
IsTdc(i) == file[i].nib = 6
IsHit(i) == file[i].nib = 11

MaxOf(S) == CHOOSE m \in S : \A x \in S : x <= m

\* the last TDC / hit packet strictly before position k (0 if none)
PrevTdc(k) ==
    LET S == {j \in 1..Min(k - 1, Len(file)) : IsTdc(j)} IN IF S = {} THEN 0 ELSE MaxOf(S)
PrevHit(k) ==
    LET S == {j \in 1..Min(k - 1, Len(file)) : IsHit(j)} IN IF S = {} THEN 0 ELSE MaxOf(S)

RawTdc(i) == IF i = 0 THEN Big(0) ELSE parse_tdc_packet(file[i])[1]
RawToa(i) == IF i = 0 THEN Big(0) ELSE parse_hit_packet(file[i])[4]

\* TDC packets among the first k whose raw time is below that of the TDC before
Rollovers(k) ==
    Cardinality({j \in 1..k : IsTdc(j) /\ BigLess(RawTdc(j), RawTdc(PrevTdc(j)))})

\* the TDC packet that opened a returned pulse (0 if none did)
Opener(item) ==
    IF item.why = "tdc" THEN PrevTdc(item.at) ELSE PrevTdc(Len(file) + 1)

Yielded == {i \in 1..Len(out) : out[i].some}

\* the packet the loop is about to handle, and its position in the file
AtPacket == pc = "loop" /\ buffer_index < buffer_bytes
Here == Consumed + 1

LastHit(p) == p.hits[Len(p.hits)]

\* C1: every pulse the reader yields, the first one included, carries
\* time = raw time of its opening TDC packet + rollovers counted up to and
\* including that packet * TDC_LIMIT, and that packet's trigger counter.
C1_YieldedPulseCarriesOpeningTdc ==
    \A i \in Yielded :
        LET o == Opener(out[i])
        IN  o # 0 =>
              /\ out[i].pulse.time = BigAdd(RawTdc(o), BigMulSmall(TDC_LIMIT, Rollovers(o)))
              /\ out[i].pulse.triggers = file[o].trig

\* C2: on a hit packet hrolls grows by 1 iff toa_raw + CHECK < raw ToA of the
\* previous hit packet and (toa_raw + (hrolls+1)*HIT_LIMIT) - (raw TDC +
\* trolls*TDC_LIMIT) < ROLL, else it is unchanged; the hit is stored with
\* toa = toa_raw + hrolls*HIT_LIMIT for the updated counter; no other packet
\* and no pulse boundary changes hrolls.
C2_RollCondition ==
    /\ BigLess(BigAdd(RawToa(Here), CHECK), RawToa(PrevHit(Here)))
    /\ BigLess(BigSub(BigAdd(RawToa(Here), BigMulSmall(HIT_LIMIT, hrolls + 1)),
                      BigAdd(RawTdc(PrevTdc(Here)), BigMulSmall(TDC_LIMIT, Rollovers(Here)))),
               ROLL)

C2_HitRolloverRule ==
    [][IF AtPacket /\ IsHit(Here)
       THEN /\ hrolls' = hrolls + (IF C2_RollCondition THEN 1 ELSE 0)
            /\ Len(pulse'.hits) = Len(pulse.hits) + 1
            /\ LastHit(pulse').toa = BigAdd(RawToa(Here), BigMulSmall(HIT_LIMIT, hrolls'))
       ELSE hrolls' = hrolls]_vars

\* a hit was stored after the ToA counter rolled over
C2_Witness ==
    /\ hrolls = 1
    /\ pulse.hits # <<>>
    /\ LastHit(pulse).toa = BigAdd(ptoa, HIT_LIMIT)
    /\ BigLess(ptoa, CHECK)

\* C3: trolls starts at 0, grows by exactly 1 on a TDC packet whose raw time
\* is strictly below that of the previous TDC packet and changes on no other
\* packet; after the raw TDC sequence (10^9, v) with v < 10^9 the pulse opened
\* by the second TDC has time v + TDC_LIMIT and trolls is 1.
C3_FirstTwoTdcsRollOver ==
    LET t2 == PrevTdc(Consumed + 1)
        t1 == PrevTdc(t2)
    IN  /\ t2 # 0 /\ t1 # 0 /\ PrevTdc(t1) = 0
        /\ RawTdc(t1) = <<100, 0>>
        /\ BigLess(RawTdc(t2), RawTdc(t1))

C3_TdcRolloverCount ==
    /\ [](trolls = Rollovers(Consumed))
    /\ [](C3_FirstTwoTdcsRollOver =>
            /\ trolls = 1
            /\ \A i \in Yielded :
                  Opener(out[i]) = PrevTdc(Consumed + 1) =>
                     out[i].pulse.time = BigAdd(RawTdc(PrevTdc(Consumed + 1)), TDC_LIMIT))
    /\ [][IF AtPacket /\ IsTdc(Here)
          THEN trolls' = trolls + (IF BigLess(RawTdc(Here), RawTdc(PrevTdc(Here))) THEN 1 ELSE 0)
          ELSE trolls' = trolls]_vars

\* the pulse opened by the second TDC of the sequence (10^9, 251) was yielded
C3_Witness ==
    /\ C3_FirstTwoTdcsRollOver
    /\ trolls = 1
    /\ \E i \in Yielded :
          /\ Opener(out[i]) = PrevTdc(Consumed + 1)
          /\ out[i].pulse.time = BigAdd(Big(251), TDC_LIMIT)

\* C4: the first TDC packet yields no pulse and every later TDC packet closes
\* the current pulse, so a TDC packet returns a pulse iff a TDC packet came
\* before it (N TDC packets give N-1 pulses before end of file).
C4_EveryLaterTdcCloses ==
    \A k \in 1..Consumed :
        IsTdc(k) =>
           ((PrevTdc(k) # 0) <=>
               \E i \in Yielded : out[i].why = "tdc" /\ out[i].at = k)

\* the hit packets between TDC packet o and the next TDC packet, in file order
RECURSIVE SegmentFrom(_)
SegmentFrom(k) ==
    IF k > Len(file) \/ IsTdc(k) THEN <<>>
    ELSE IF IsHit(k) THEN <<k>> \o SegmentFrom(k + 1)
    ELSE SegmentFrom(k + 1)

Finished == pc = "idle" /\ Nones >= 1

\* C5: once the file is read, every hit packet after the first TDC packet is
\* in exactly one yielded pulse, the one opened by the TDC packet before it,
\* at its file-order position with index = position; pulses come in the file
\* order of their opening TDC packets.
C5_HitsPartitionedByPulse ==
    Finished =>
      /\ \A k \in 1..Len(file) :
            (IsHit(k) /\ PrevTdc(k) # 0) =>
               Cardinality({i \in Yielded : Opener(out[i]) = PrevTdc(k)}) = 1
      /\ \A i \in Yielded :
            LET o == Opener(out[i])
                seg == SegmentFrom(o + 1)
                hs == out[i].pulse.hits
            IN  o # 0 =>
                  /\ Len(hs) = Len(seg)
                  /\ \A n \in 1..Len(hs) :
                        /\ hs[n].index = n - 1
                        /\ hs[n].col = parse_hit_packet(file[seg[n]])[1]
                        /\ hs[n].row = parse_hit_packet(file[seg[n]])[2]
      /\ \A i, j \in Yielded : i < j => Opener(out[i]) <= Opener(out[j])

\* C6: at end of file the open pulse is yielded once if it holds a hit; after
\* that, and when it is empty, next() returns None and keeps returning None.
\* An empty file and a file of one TDC packet yield no pulse.
C6_EofReturn == Len(out') = Len(out) + 1 /\ out'[Len(out')].why = "eof"

C6_EndOfFile ==
    /\ [](\A i, j \in 1..Len(out) :
             (i < j /\ (~out[i].some \/ out[i].why = "eof")) => ~out[j].some)
    /\ []((file = <<>> \/ (Len(file) = 1 /\ IsTdc(1))) => Yielded = {})
    /\ [][C6_EofReturn =>
            /\ out'[Len(out')].some <=> (pulse.hits # <<>>)
            /\ out'[Len(out')].some =>
                  /\ out'[Len(out')].pulse.hits = pulse.hits
                  /\ pulse'.hits = <<>>]_vars
    /\ [][(fpos = Len(file) /\ out' # out /\ (pc = "idle" => buffer_index = 0)
             /\ ~(AtPacket /\ IsTdc(Here)))
          => C6_EofReturn]_vars

\* the open pulse was flushed at end of file and two more calls returned None
C6_Witness ==
    /\ Len(out) >= 3
    /\ out[Len(out) - 2].some /\ out[Len(out) - 2].why = "eof"
    /\ out[Len(out) - 2].pulse.hits # <<>>
    /\ ~out[Len(out) - 1].some /\ ~out[Len(out)].some

\* C7: a blob packet changes only the last hit of the open pulse: its tot
\* grows by tot_coarse * 1024 * 25 and its col_offset, row_offset and size come
\* from the packet; everything else, the counters and registers included, is
\* unchanged and no pulse is closed.
C7_BlobUpdatesLastHitOnly ==
    [][(AtPacket /\ file[Here].nib = 12 /\ pulse.hits # <<>> /\ pc' # "panic") =>
         LET n == Len(pulse.hits)
             old == pulse.hits[n]
             new == pulse'.hits[n]
         IN  /\ Len(pulse'.hits) = n
             /\ new.tot = BigAdd(old.tot, BigMulSmall(Big(file[Here].tc), 25600))
             /\ new.col_offset = file[Here].coff
             /\ new.row_offset = file[Here].roff
             /\ new.size = file[Here].size
             /\ new.toa = old.toa /\ new.col = old.col /\ new.row = old.row
             /\ new.index = old.index /\ new.label = old.label
             /\ \A m \in 1..(n - 1) : pulse'.hits[m] = pulse.hits[m]
             /\ pulse'.time = pulse.time /\ pulse'.triggers = pulse.triggers
             /\ UNCHANGED <<trolls, hrolls, ptdc, ptoa, ptri, out>>]_vars

\* ------------------------------------------------------------------------
\* Clustering a decoded pulse: label_hits, then centroid
\* ------------------------------------------------------------------------
MaxHits == 3

HitCols == {10, 11, 12}
HitRows == {20}
HitToas == {0, 600000, 1200000}
HitTots == {0, 25}
HitTime == <<100, 0>>

HitChoices == HitCols \X HitRows \X HitToas \X HitTots

\* a pulse as the reader yields it: index = position, nothing labelled
DecodedPulse(cs) ==
    [time |-> HitTime,
     hits |-> [k \in 1..Len(cs) |->
                  NewHit(k - 1, BigAdd(HitTime, Big(cs[k][3])), Big(cs[k][4]), cs[k][1], cs[k][2])],
     triggers |-> 7, clusters |-> 0]

InitCluster ==
    /\ file = <<>> /\ fpos = 0 /\ buffer = <<>> /\ buffer_index = 0
    /\ pulse = DefaultPulse /\ trolls = 0 /\ hrolls = 0
    /\ ptdc = Big(0) /\ ptoa = Big(0) /\ ptri = 0
    /\ pc = "idle" /\ out = <<>>
    /\ \E n \in 0..MaxHits : \E cs \in [1..n -> HitChoices] :
          /\ orig = DecodedPulse(cs)
          /\ cpulse = DecodedPulse(cs)
    /\ phase = "decoded"
    /\ CodecIdle
    /\ ArchiveIdle
    /\ ImageIdle
    /\ ReportIdle

readerVars == <<file, fpos, buffer, buffer_index, pulse, trolls, hrolls, ptdc, ptoa, ptri,
                pc, out>>

LabelHits ==
    /\ phase = "decoded"
    /\ cpulse' = label_hits(cpulse)
    /\ phase' = "labelled"
    /\ UNCHANGED <<orig, readerVars, codecVars, archiveVars, imageVars, reportVars>>

Centroid ==
    /\ phase = "labelled"
    /\ cpulse' = centroid(cpulse)
    /\ phase' = "centroided"
    /\ UNCHANGED <<orig, readerVars, codecVars, archiveVars, imageVars, reportVars>>

NextCluster == LabelHits \/ Centroid

SpecCluster == InitCluster /\ [][NextCluster]_vars

\* ------------------------------------------------------------------------
\* Properties of label_hits and centroid
\* ------------------------------------------------------------------------
HitIds == 1..Len(orig.hits)

\* the edges of the claim: proximal hits within the time and box gates
Edge(i, j) ==
    LET a == orig.hits[i]
        b == orig.hits[j]
    IN  /\ is_proximal(a, b)
        /\ BigLess(BigAbs(BigSub(a.toa, b.toa)), Big(1000000))
        /\ Abs(a.col - b.col) < 15
        /\ Abs(a.row - b.row) < 15

RECURSIVE Reach(_)
Reach(S) ==
    LET T == S \cup {j \in HitIds : \E i \in S : Edge(i, j)}
    IN  IF T = S THEN S ELSE Reach(T)

\* C8: after label_hits on a freshly decoded pulse two hits carry the same
\* label iff they are in the same connected component of the graph of
\* proximal hits that pass the time and box gates.
C8_LabelsAreComponents ==
    phase = "labelled" =>
       \A i, j \in HitIds :
          (cpulse.hits[i].label = cpulse.hits[j].label) <=> (j \in Reach({i}))

RECURSIVE SumSizes(_)
SumSizes(hs) == IF hs = <<>> THEN 0 ELSE hs[1].size + SumSizes(Tail(hs))

\* C9: after label_hits and centroid the sizes of the centroided hits add up
\* to the number of hits of the decoded pulse.
C9_SizesSumToHitCount ==
    phase = "centroided" => SumSizes(cpulse.hits) = Len(orig.hits)

\* three hits were merged into one although label_hits left cluster 1 empty
C9_Witness ==
    /\ phase = "centroided"
    /\ Len(orig.hits) = 3
    /\ label_hits(orig).clusters = 2
    /\ Len(cpulse.hits) = 1
    /\ cpulse.hits[1].size = 3

RECURSIVE SumOver(_, _)
SumOver(S, f) ==
    IF S = {} THEN 0 ELSE LET x == CHOOSE y \in S : TRUE IN f[x] + SumOver(S \ {x}, f)

Members(i) == {k \in HitIds : label_hits(orig).hits[k].label = i}

\* h is the truncated tot-weighted mean position, minimum toa, summed tot and
\* member count of the hits M
IsCentroidOf(h, M) ==
    LET T == SumOver(M, [k \in HitIds |-> Val(orig.hits[k].tot)])
        C == SumOver(M, [k \in HitIds |-> orig.hits[k].col * Val(orig.hits[k].tot)])
        R == SumOver(M, [k \in HitIds |-> orig.hits[k].row * Val(orig.hits[k].tot)])
        same == \A k, l \in M : orig.hits[k].tot = orig.hits[l].tot
    IN  /\ h.size = Cardinality(M)
        /\ Val(h.tot) = T
        /\ \E k \in M : h.toa = orig.hits[k].toa
        /\ \A k \in M : BigLeq(h.toa, orig.hits[k].toa)
        /\ h.col * T <= C /\ C < (h.col + 1) * T
        /\ h.row * T <= R /\ R < (h.row + 1) * T
        /\ same => /\ h.col = SumOver(M, [k \in HitIds |-> orig.hits[k].col]) \div Cardinality(M)
                   /\ h.row = SumOver(M, [k \in HitIds |-> orig.hits[k].row]) \div Cardinality(M)

\* C10: for every non-empty cluster centroid emits one hit with the minimum
\* member toa, the summed tot, the member count as size and the tot-weighted
\* mean col and row truncated to an integer (the integer mean when all tot are
\* equal); the pulse's time and triggers are copied.
C10_CentroidOfEachCluster ==
    phase = "centroided" =>
       /\ cpulse.time = orig.time /\ cpulse.triggers = orig.triggers
       /\ \A i \in 1..label_hits(orig).clusters :
             Members(i) # {} =>
                Cardinality({n \in 1..Len(cpulse.hits) :
                                IsCentroidOf(cpulse.hits[n], Members(i))}) >= 1
       /\ Len(cpulse.hits) =
             Cardinality({i \in 1..label_hits(orig).clusters : Members(i) # {}})

\* ------------------------------------------------------------------------
\* Encoding and decoding: a hit packet decoded and re-encoded, a pulse's TDC
\* packet encoded and decoded, and a clustered, centroided pulse written by
\* to_bytes and decoded again
\* ------------------------------------------------------------------------
MaxCodecHits == 2

CodecPackets ==
    {HitPacket(dcol, spix, pix, ctoa, tot10, ftoa, spidr) :
        dcol \in {0, 5, 127}, spix \in {0, 63}, pix \in 0..7, ctoa \in {0, 195, 16383},
        tot10 \in {0, 1023}, ftoa \in {0, 7, 15}, spidr \in {0, 65535}}

CodecTimes ==
    {Big(0), Big(25), Big(251), Big(25000), <<100, 0>>, BigAdd(TDC_LIMIT, Big(251))}

CodecTriggers == {0, 7, 4095}

\* decoded hits: ToA on the 1562.5 ps grid, ToT a multiple of 25 below 25600
CodecHitChoices == {10, 11} \X {20} \X {0, 600000} \X {25, 25575}

InitCodec ==
    /\ file = <<>> /\ fpos = 0 /\ buffer = <<>> /\ buffer_index = 0
    /\ pulse = DefaultPulse /\ trolls = 0 /\ hrolls = 0
    /\ ptdc = Big(0) /\ ptoa = Big(0) /\ ptri = 0
    /\ pc = "idle" /\ out = <<>>
    /\ ArchiveIdle
    /\ ImageIdle
    /\ ReportIdle
    /\ codec_mid = [kind |-> "none"] /\ codec_out = [kind |-> "none"]
    /\ \/ /\ \E P \in CodecPackets : codec_in = [kind |-> "hit", packet |-> P]
          /\ cpulse = DefaultPulse /\ orig = DefaultPulse /\ phase = "off"
       \/ /\ \E t \in CodecTimes : \E g \in CodecTriggers :
                codec_in = [kind |-> "tdc",
                            pulse |-> [DefaultPulse EXCEPT !.time = t, !.triggers = g]]
          /\ cpulse = DefaultPulse /\ orig = DefaultPulse /\ phase = "off"
       \/ /\ codec_in = [kind |-> "pulse"]
          /\ \E n \in 0..MaxCodecHits : \E cs \in [1..n -> CodecHitChoices] :
                /\ orig = DecodedPulse(cs)
                /\ cpulse = DecodedPulse(cs)
          /\ phase = "decoded"

\* parse_hit_packet on a packet with top nibble 0xB
ParseHit ==
    /\ codec_in.kind = "hit" /\ codec_mid.kind = "none"
    /\ LET dec == parse_hit_packet(codec_in.packet)
       IN  codec_mid' = [kind |-> "hit", hit |-> NewHit(0, dec[4], dec[3], dec[1], dec[2])]
    /\ UNCHANGED <<codec_in, codec_out, clusterVars, readerVars, archiveVars, imageVars, reportVars>>

\* Hit::to_hit_packet on the decoded hit
EncodeHit ==
    /\ codec_mid.kind = "hit" /\ codec_out.kind = "none"
    /\ codec_out' = [kind |-> "packet", packet |-> to_hit_packet(codec_mid.hit)]
    /\ UNCHANGED <<codec_in, codec_mid, clusterVars, readerVars, archiveVars, imageVars, reportVars>>

\* Pulse::to_tdc_packet
EncodeTdc ==
    /\ codec_in.kind = "tdc" /\ codec_mid.kind = "none"
    /\ codec_mid' = [kind |-> "packet", packet |-> to_tdc_packet(codec_in.pulse)]
    /\ UNCHANGED <<codec_in, codec_out, clusterVars, readerVars, archiveVars, imageVars, reportVars>>

\* parse_tdc_packet on the encoded packet
ParseTdc ==
    /\ codec_in.kind = "tdc" /\ codec_mid.kind = "packet" /\ codec_out.kind = "none"
    /\ LET dec == parse_tdc_packet(codec_mid.packet)
       IN  codec_out' = [kind |-> "tdc", time |-> dec[1], triggers |-> dec[2]]
    /\ UNCHANGED <<codec_in, codec_mid, clusterVars, readerVars, archiveVars, imageVars, reportVars>>

\* Pulse::to_bytes on the centroided pulse
ToBytes ==
    /\ phase = "centroided" /\ codec_in.kind = "pulse"
    /\ codec_mid' = [kind |-> "bytes", bytes |-> to_bytes(cpulse)]
    /\ phase' = "written"
    /\ UNCHANGED <<codec_in, codec_out, cpulse, orig, readerVars, archiveVars, imageVars, reportVars>>

\* the bytes decoded again
ReadBack ==
    /\ phase = "written"
    /\ codec_out' = [kind |-> "pulse", pulse |-> decode_packets(codec_mid.bytes, DefaultPulse)]
    /\ phase' = "reread"
    /\ UNCHANGED <<codec_in, codec_mid, cpulse, orig, readerVars, archiveVars, imageVars, reportVars>>

NextCodec ==
    ParseHit \/ EncodeHit \/ EncodeTdc \/ ParseTdc \/ LabelHits \/ Centroid \/ ToBytes \/ ReadBack

SpecCodec == InitCodec /\ [][NextCodec]_vars

\* tot / (1024 * 25): the part of a tot that a blob packet carries
tot_coarse(tot) == BigDivMod(tot, Big(25600), 0)[1]

\* C11: the bytes to_bytes writes for a centroided pulse decode to the same
\* hits in the same order: same toa % HIT_LIMIT, col, row and coarse tot, and,
\* for a hit of size >= 2 (the hits that get a blob packet), the same size,
\* col_offset and row_offset.
C11_PulseBytesRoundTrip ==
    phase = "reread" =>
       LET was == cpulse.hits
           got == codec_out.pulse.hits
       IN  /\ Len(got) = Len(was)
           /\ \A n \in 1..Len(was) :
                 /\ BigMod(got[n].toa, HIT_LIMIT) = BigMod(was[n].toa, HIT_LIMIT)
                 /\ got[n].col = was[n].col /\ got[n].row = was[n].row
                 /\ tot_coarse(got[n].tot) = tot_coarse(was[n].tot)
                 /\ was[n].size >= 2 =>
                       /\ got[n].size = was[n].size
                       /\ got[n].col_offset = was[n].col_offset
                       /\ got[n].row_offset = was[n].row_offset

\* C12: for every hit packet P, to_hit_packet applied to the col, row, tot and
\* toa that parse_hit_packet returns for P gives P back, field for field (the
\* fields cover all 64 bits).
C12_HitPacketRoundTrip ==
    codec_out.kind = "packet" => codec_out.packet = codec_in.packet

\* a packet whose 18 ToA bits are past the first half-picosecond correction
\* (coarse ToA 195, fine ToA 7) came back
C12_Witness ==
    /\ codec_out.kind = "packet"
    /\ codec_in.packet.ctoa = 195 /\ codec_in.packet.ftoa = 7
    /\ codec_in.packet.spidr = 65535 /\ codec_in.packet.pix = 5
    /\ codec_out.packet.ctoa = 195 /\ codec_out.packet.ftoa = 7

\* C13: parse_tdc_packet(to_tdc_packet(pulse)) returns (pulse.time % TDC_LIMIT,
\* pulse.triggers) for every time >= 0 and every trigger counter in 0..4095.
C13_TdcPacketRoundTrip ==
    codec_out.kind = "tdc" =>
       /\ codec_out.time = BigMod(codec_in.pulse.time, TDC_LIMIT)
       /\ codec_out.triggers = codec_in.pulse.triggers

\* ------------------------------------------------------------------------
\* Pixel and PixelSpan (pixel.rs)
\* An m/z value is a pair <<v, q>>: v is the f32 value, which orders the
\* values; q is (x * 10^(5 - log10 x)) as u64, the key to_vecs bins by.
\* ------------------------------------------------------------------------
ColCount == 2        \* image.config.cols()
RowCount == 10001    \* image.config.rows()

\* PixelSpan::empty; pixels[c + 1] is the pixel of column c
empty_span(pixel_count) ==
    [pixel_added |-> FALSE, empty_pass_count |-> 0,
     pixels |-> [c \in 1..pixel_count |-> <<>>]]

add_mz(span, mz, pixel_index) ==
    [span EXCEPT !.empty_pass_count = 0, !.pixel_added = TRUE,
                 !.pixels[pixel_index + 1] = Append(@, mz)]

update_end_pass_keep_count(span) ==
    [span EXCEPT !.empty_pass_count = @ + 1, !.pixel_added = FALSE]

update_end_pass(span) ==
    [span EXCEPT !.empty_pass_count = IF span.pixel_added THEN 0 ELSE @ + 1,
                 !.pixel_added = FALSE]

\* sort_by(total_cmp): x goes after the values that are not greater
RECURSIVE insert_sorted(_, _)
insert_sorted(sorted, x) ==
    IF sorted = <<>> THEN <<x>>
    ELSE IF sorted[Len(sorted)][1] <= x[1] THEN Append(sorted, x)
    ELSE Append(insert_sorted(SubSeq(sorted, 1, Len(sorted) - 1), x), sorted[Len(sorted)])

RECURSIVE sort_pixel(_)
sort_pixel(pixel) ==
    IF pixel = <<>> THEN <<>>
    ELSE insert_sorted(sort_pixel(SubSeq(pixel, 1, Len(pixel) - 1)), pixel[Len(pixel)])

\* i16 += 1 in a build without overflow checks
add_one_i16(c) == IF c + 1 > 32767 THEN c + 1 - 65536 ELSE c + 1

\* the loop of to_vecs over the sorted values, from position k
RECURSIVE to_vecs_loop(_, _, _, _, _)
to_vecs_loop(sorted, k, prev, mzs, intensities) ==
    IF k > Len(sorted) THEN [mzs |-> mzs, ints |-> intensities]
    ELSE LET mz == sorted[k][2]
         IN  IF mz > prev
             THEN to_vecs_loop(sorted, k + 1, mz, Append(mzs, sorted[k]), Append(intensities, 1))
             ELSE IF mz = 0
             THEN to_vecs_loop(sorted, k + 1, mz, mzs, Append(intensities, 1))
             ELSE to_vecs_loop(sorted, k + 1, mz, mzs,
                               [intensities EXCEPT ![Len(intensities)] = add_one_i16(@)])

to_vecs(pixel) == to_vecs_loop(sort_pixel(pixel), 1, 0, <<>>, <<>>)

\* ------------------------------------------------------------------------
\* The archive writer (imzml.rs).  A file is a sequence of tokens
\* [t |-> kind, c |-> content]: one token per byte of the .ibd file; in the
\* .imzml file one token per character of the checksum, one for the header
\* text before it, one for the header text after it, one per spectrum
\* element (c is its position in `spectra`) and one for the footer.
\* ------------------------------------------------------------------------
LOW_CROP_ROW == 0
HIGH_CROP_ROW == 10000
LOW_CROP_COL == 0
HIGH_CROP_COL == 10000
SHA1_BUFFER_SIZE == 1024

\* IMZMLHeader::default().sha1sum, in ASCII codes
DummyChecksum ==
    <<97, 95, 100, 117, 109, 109, 121, 95,
      99, 104, 101, 99, 107, 115, 117, 109, 95, 116, 104, 97, 116, 95,
      115, 104, 111, 117, 108, 100, 95, 98, 101, 95, 114, 101, 112, 108, 97, 99, 101, 100>>

\* the 16 bytes of the uuid
uuid_as_bytes == [i \in 1..16 |-> [t |-> "uuid", c |-> i]]

\* f32::to_le_bytes of each m/z value (four bytes standing for the value)
RECURSIVE mzs_bytes(_)
mzs_bytes(mzs) ==
    IF mzs = <<>> THEN <<>>
    ELSE LET m == mzs[1]
         IN  <<[t |-> "mz", c |-> m[1] % 256], [t |-> "mz", c |-> (m[1] \div 256) % 256],
               [t |-> "mz", c |-> m[2] % 256], [t |-> "mz", c |-> (m[2] \div 256) % 256]>>
             \o mzs_bytes(Tail(mzs))

\* i16::to_le_bytes of each count
RECURSIVE ints_bytes(_)
ints_bytes(ints) ==
    IF ints = <<>> THEN <<>>
    ELSE <<[t |-> "int", c |-> ints[1] % 256], [t |-> "int", c |-> (ints[1] \div 256) % 256]>>
         \o ints_bytes(Tail(ints))

RECURSIVE SumSeq(_)
SumSeq(q) == IF q = <<>> THEN 0 ELSE q[1] + SumSeq(Tail(q))

spectrum_record_scan_number(idx, off, col, row, mzs, ints, mz_enc_len, int_enc_len) ==
    [index |-> idx + 1, spectrum_sum |-> SumSeq(ints) % 65536,
     pixel_column |-> col + 1, pixel_row |-> row + 1,
     mz_len |-> Len(mzs), mz_offset |-> off, mz_enc_len |-> mz_enc_len,
     int_len |-> Len(ints), int_offset |-> off + mz_enc_len, int_enc_len |-> int_enc_len]

\* the IMZMLSpectrum that write_spectrum builds
spectrum_record(idx, off, col, row, mzs, ints, mz_enc_len, int_enc_len) ==
    [index |-> idx, spectrum_sum |-> SumSeq(ints) % 65536,
     pixel_column |-> col + 1, pixel_row |-> row + 1,
     mz_len |-> Len(mzs), mz_offset |-> off, mz_enc_len |-> mz_enc_len,
     int_len |-> Len(ints), int_offset |-> off + mz_enc_len, int_enc_len |-> int_enc_len]

next_offset_mz_only(off, mz_enc_len, int_enc_len) == off + mz_enc_len

\* self.offset = self.offset + mz_enc_len + int_enc_len
next_offset(off, mz_enc_len, int_enc_len) == off + mz_enc_len + int_enc_len

\* the writer's fields and files after write_spectrum; w.status becomes "panic"
\* when assert!(i > 0) fails
write_spectrum(w, pixel, col, row) ==
    LET v == to_vecs(pixel)
        mb == mzs_bytes(v.mzs)
        ib == ints_bytes(v.ints)
        rec == spectrum_record(w.index, w.offset, col, row, v.mzs, v.ints, Len(mb), Len(ib))
    IN  IF \E i \in 1..Len(v.ints) : ~(v.ints[i] > 0)
        THEN [w EXCEPT !.status = "panic"]
        ELSE [w EXCEPT !.ibd_file = @ \o mb \o ib,
                       !.spectra = Append(@, rec),
                       !.imzml_file = Append(@, [t |-> "spectrum", c |-> Len(w.spectra) + 1]),
                       !.offset = next_offset(w.offset, Len(mb), Len(ib)),
                       !.index = @ + 1]

\* the for_each over the pixels of a row, from column col
RECURSIVE write_pixels(_, _, _, _)
write_pixels(w, pixels, col, row) ==
    IF col >= Len(pixels) \/ w.status # "ok" THEN w
    ELSE write_pixels(IF col >= LOW_CROP_COL /\ col < HIGH_CROP_COL
                      THEN write_spectrum(w, pixels[col + 1], col - LOW_CROP_COL,
                                          row - LOW_CROP_ROW)
                      ELSE w,
                      pixels, col + 1, row)

never_written(written, row) == FALSE

\* rows_written.iter().any(|&i| i == row)
was_written(written, row) == \E i \in 1..Len(written) : written[i] = row

\* scan_write_rows over `rows`; w carries the writer's fields, the files, the
\* row map and the ledger; status "panic": a row was written twice; "err":
\* no row to remove
RECURSIVE scan_write_rows(_, _)
scan_write_rows(w, rows) ==
    IF rows = <<>> \/ w.status # "ok" THEN w
    ELSE LET row == rows[1]
         IN  IF was_written(w.rows_written, row) THEN [w EXCEPT !.status = "panic"]
             ELSE IF row \notin DOMAIN w.spans
             THEN [w EXCEPT !.rows_written = Append(@, row), !.status = "err"]
             ELSE LET extracted_row == w.spans[row]
                      w1 == [w EXCEPT !.rows_written = Append(@, row),
                                      !.spans = [r \in (DOMAIN w.spans) \ {row} |-> w.spans[r]]]
                  IN  scan_write_rows(
                          IF row >= LOW_CROP_ROW /\ row < HIGH_CROP_ROW
                          THEN write_pixels(w1, extracted_row.pixels, 0, row)
                          ELSE w1,
                          Tail(rows))

\* the rows of S in HashMap iteration order (any order; here descending)
RECURSIVE unsorted_rows(_)
unsorted_rows(S) ==
    IF S = {} THEN <<>>
    ELSE LET m == CHOOSE x \in S : \A y \in S : y <= x
         IN  <<m>> \o unsorted_rows(S \ {m})

\* collect() followed by sort_unstable()
RECURSIVE sorted_rows(_)
sorted_rows(S) ==
    IF S = {} THEN <<>>
    ELSE LET m == CHOOSE x \in S : \A y \in S : x <= y
         IN  <<m>> \o sorted_rows(S \ {m})

finished_after_two(span) == span.empty_pass_count > 1

\* the filter that selects the rows to drain at a direction change
finished(span) == span.empty_pass_count > 2

\* the orders in which iterating over the HashMap may hand out the keys S
iteration_orders(S) ==
    {o \in [1..Cardinality(S) -> S] : \A i, j \in 1..Cardinality(S) : o[i] = o[j] => i = j}

keep_order(order) == order

\* sort_unstable() on the rows collected from the map
sort_unstable(order) == sorted_rows({order[i] : i \in 1..Len(order)})

\* the keys of the rows that are finished
finished_keys(sp) == {r \in DOMAIN sp : finished(sp[r])}

\* the bytes ibd_to_sha1 hashes: it reads from byte 0 and stops after the first
\* read shorter than the buffer
RECURSIVE hashed_bytes(_)
hashed_bytes(rest) ==
    IF Len(rest) < SHA1_BUFFER_SIZE THEN rest
    ELSE SubSeq(rest, 1, SHA1_BUFFER_SIZE)
         \o hashed_bytes(SubSeq(rest, SHA1_BUFFER_SIZE + 1, Len(rest)))

RECURSIVE weigh(_, _)
weigh(bytes, k) ==
    IF k > Len(bytes) THEN 0 ELSE ((k * (bytes[k].c + 1)) + weigh(bytes, k + 1)) % 256

\* a stand-in for the SHA-1 digest: 20 bytes that depend on every byte hashed,
\* on its position and on the number of bytes
Sha1(bytes) == [i \in 1..20 |-> (weigh(bytes, 1) + (7 * Len(bytes)) + (13 * i)) % 256]

hex_digit(d) == IF d < 10 THEN 48 + d ELSE 87 + d

hex_unpadded(b) ==
    IF b < 16 THEN <<hex_digit(b)>> ELSE <<hex_digit(b \div 16), hex_digit(b % 16)>>

\* format!("{:02x}", b)
hex_byte(b) == <<hex_digit(b \div 16), hex_digit(b % 16)>>

RECURSIVE hex_string(_)
hex_string(digest) ==
    IF digest = <<>> THEN <<>> ELSE hex_byte(digest[1]) \o hex_string(Tail(digest))

ibd_to_sha1(ibd) == hex_string(Sha1(hashed_bytes(ibd)))

\* IMZMLHeader's Display: the text up to the checksum, the checksum, the rest
header_to_string(h) ==
    <<[t |-> "header", c |-> 1]>>
    \o [i \in 1..Len(h.sha1sum) |-> [t |-> "header", c |-> h.sha1sum[i]]]
    \o <<[t |-> "header", c |-> 2]>>

IMZML_FOOTER == <<[t |-> "footer", c |-> 0]>>

\* seek(SeekFrom::Start(0)) followed by write_all
write_at_start(f, bytes) == bytes \o SubSeq(f, Len(bytes) + 1, Len(f))

\* ------------------------------------------------------------------------
\* Input of the archive writer: the (pulse, coordinate) pairs whose coordinate
\* is finite; a hit is given by the row and column rasterize returns for it and
\* by its m/z value
\* ------------------------------------------------------------------------
MaxItems == 5

MzA == <<100, 99999>>
MzB == <<150, 100000>>
MzC == <<200, 100000>>
MzHigh == <<300, 100000>>    \* m/z 300: dropped

HitsNone == <<>>
HitsRow0 == <<[row |-> 0, col |-> 0, mz |-> MzC], [row |-> 0, col |-> 0, mz |-> MzA]>>
HitsRow1 ==
    <<[row |-> 1, col |-> 1, mz |-> MzB], [row |-> RowCount, col |-> 0, mz |-> MzB],
      [row |-> 1, col |-> 0, mz |-> MzHigh]>>
HitsFar == <<[row |-> RowCount - 1, col |-> 0, mz |-> MzA]>>

Items ==
    {[hits |-> h, direction |-> d] :
        h \in {HitsNone, HitsRow0, HitsRow1 \o HitsFar}, d \in {"Right", "Left"}}

\* the hit passes the filter of stream_convert_and_save
in_image(hit) ==
    /\ hit.row < RowCount /\ hit.col < ColCount
    /\ hit.mz[1] > 0 /\ hit.mz[1] < 300

\* the loop over the hits of a pulse
RECURSIVE add_hits(_, _)
add_hits(sp, hits) ==
    IF hits = <<>> THEN sp
    ELSE LET hit == hits[1]
             old == IF hit.row \in DOMAIN sp THEN sp[hit.row] ELSE empty_span(ColCount)
         IN  add_hits(IF in_image(hit)
                      THEN [r \in (DOMAIN sp) \cup {hit.row} |->
                               IF r = hit.row THEN add_mz(old, hit.mz, hit.col) ELSE sp[r]]
                      ELSE sp,
                      Tail(hits))

\* IMZMLMaker::new
InitArchive ==
    /\ file = <<>> /\ fpos = 0 /\ buffer = <<>> /\ buffer_index = 0
    /\ pulse = DefaultPulse /\ trolls = 0 /\ hrolls = 0
    /\ ptdc = Big(0) /\ ptoa = Big(0) /\ ptri = 0
    /\ pc = "idle" /\ out = <<>>
    /\ cpulse = DefaultPulse /\ orig = DefaultPulse /\ phase = "off"
    /\ CodecIdle
    /\ stream = <<>> /\ spans = <<>> /\ rows_written = <<>> /\ direction = "Right"
    /\ index = 0 /\ offset = 16
    /\ header = [sha1sum |-> DummyChecksum, number_of_spectra |-> ColCount * RowCount]
    /\ ibd_file = <<>> /\ imzml_file = <<>> /\ spectra = <<>> /\ wpc = "new"
    /\ ImageIdle
    /\ ReportIdle

otherVars == <<readerVars, clusterVars, codecVars, imageVars, reportVars>>

\* the writer's fields and files, as scan_write_rows takes them
Writer(sp) ==
    [index |-> index, offset |-> offset, ibd_file |-> ibd_file, imzml_file |-> imzml_file,
     spectra |-> spectra, spans |-> sp, rows_written |-> rows_written, status |-> "ok"]

\* what scan_write_rows left; `then` is the position when it returned Ok
Install(w, then) ==
    /\ index' = w.index /\ offset' = w.offset
    /\ ibd_file' = w.ibd_file /\ imzml_file' = w.imzml_file /\ spectra' = w.spectra
    /\ spans' = w.spans /\ rows_written' = w.rows_written
    /\ wpc' = IF w.status = "ok" THEN then ELSE w.status

\* spans.iter_mut().for_each(|(_, pixel_span)| pixel_span.update_end_pass())
end_pass(sp) == [r \in DOMAIN sp |-> update_end_pass(sp[r])]

\* stream_convert_and_save up to the loop: the header and the uuid are written
Start ==
    /\ wpc = "new"
    /\ imzml_file' = imzml_file \o header_to_string(header)
    /\ ibd_file' = ibd_file \o uuid_as_bytes
    /\ wpc' = "streaming"
    /\ UNCHANGED <<stream, spans, rows_written, direction, index, offset, header, spectra,
                   otherVars>>

\* one turn of the loop: the hits are added, and when the direction changed
\* every row gets update_end_pass and the finished rows are drained
StreamItem ==
    /\ wpc = "streaming" /\ Len(stream) < MaxItems
    /\ \E item \in Items :
          LET sp1 == add_hits(spans, item.hits)
              sp2 == end_pass(sp1)
          IN  /\ stream' = Append(stream, item)
              /\ direction' = item.direction
              /\ IF item.direction # direction
                 THEN \E order \in iteration_orders(finished_keys(sp2)) :
                         Install(scan_write_rows(Writer(sp2), sort_unstable(order)),
                                 "streaming")
                 ELSE /\ spans' = sp1
                      /\ UNCHANGED <<rows_written, index, offset, ibd_file, imzml_file,
                                     spectra, wpc>>
    /\ UNCHANGED <<header, otherVars>>

\* the input is used up: the rows that are left are drained
DrainRest ==
    /\ wpc = "streaming"
    /\ \E order \in iteration_orders(DOMAIN spans) :
          Install(scan_write_rows(Writer(spans), sort_unstable(order)), "drained")
    /\ UNCHANGED <<stream, direction, header, otherVars>>

WriteFooter ==
    /\ wpc = "drained"
    /\ imzml_file' = imzml_file \o IMZML_FOOTER
    /\ wpc' = "footer"
    /\ UNCHANGED <<stream, spans, rows_written, direction, index, offset, header, ibd_file,
                   spectra, otherVars>>

\* overwrite_header_with_sha1_checksum, first line: the digest goes into the header
ComputeChecksum ==
    /\ wpc = "footer"
    /\ header' = [header EXCEPT !.sha1sum = ibd_to_sha1(ibd_file)]
    /\ wpc' = "hashed"
    /\ UNCHANGED <<stream, spans, rows_written, direction, index, offset, ibd_file,
                   imzml_file, spectra, otherVars>>

\* ... the rest: the header is written again at offset 0; Ok(()) is returned
OverwriteHeader ==
    /\ wpc = "hashed"
    /\ imzml_file' = write_at_start(imzml_file, header_to_string(header))
    /\ wpc' = "ok"
    /\ UNCHANGED <<stream, spans, rows_written, direction, index, offset, header, ibd_file,
                   spectra, otherVars>>

NextArchive ==
    Start \/ StreamItem \/ DrainRest \/ WriteFooter \/ ComputeChecksum \/ OverwriteHeader

SpecArchive == InitArchive /\ [][NextArchive]_vars

\* ------------------------------------------------------------------------
\* What the input says, independently of the writer's fields
\* ------------------------------------------------------------------------
\* item k of the input s changes the direction
IsChange(s, k) == s[k].direction # (IF k = 1 THEN "Right" ELSE s[k - 1].direction)

Changes(s) == {k \in 1..Len(s) : IsChange(s, k)}

\* the n-th last direction change of s (0 if there are fewer)
RECURSIVE NthLastChange(_, _)
NthLastChange(S, n) ==
    IF S = {} THEN 0
    ELSE IF n = 1 THEN MaxOf(S)
    ELSE NthLastChange(S \ {MaxOf(S)}, n - 1)

\* item k of s appends an m/z value to row r / to pixel (r, c)
DataAt(s, k, r) == \E i \in 1..Len(s[k].hits) : in_image(s[k].hits[i]) /\ s[k].hits[i].row = r

ValuesAt(s, r, c) ==
    {<<k, i>> \in (1..Len(s)) \X (1..4) :
        /\ i <= Len(s[k].hits)
        /\ in_image(s[k].hits[i]) /\ s[k].hits[i].row = r /\ s[k].hits[i].col = c}

\* r received an m/z value in items a+1 .. b of s
DataIn(s, a, b, r) == \E k \in (a + 1)..b : DataAt(s, k, r)

RowsOf(hits) == {hits[i].row : i \in {i \in 1..Len(hits) : in_image(hits[i])}}

RowsWithData(s) == UNION {RowsOf(s[k].hits) : k \in 1..Len(s)}

Written == {rows_written[i] : i \in 1..Len(rows_written)}

\* this step takes an item that changes the direction
ChangeStep == wpc = "streaming" /\ Len(stream') = Len(stream) + 1 /\ direction' # direction

\* this step is the drain at the end of the input
FinalStep == wpc = "streaming" /\ stream' = stream /\ wpc' # "streaming"

\* the spectra this step emits
NewSpectra == SubSeq(spectra', Len(spectra) + 1, Len(spectra'))

\* C14: at each direction change every live row gets update_end_pass
\* (empty_pass_count 0 if an m/z value was added since the previous direction
\* change, else one more; flag cleared) and is then drained and removed iff its
\* count exceeds 2; so no live row ever has a count above 2 and a row that
\* received data in the last three intervals is not drained at a direction
\* change.
C14_CountAfter(r) ==
    IF DataIn(stream', NthLastChange(Changes(stream), 1), Len(stream'), r) THEN 0
    ELSE IF r \in DOMAIN spans THEN spans[r].empty_pass_count + 1
    ELSE 0

C14_DrainAfterThreeEmptyPasses ==
    /\ [](wpc = "streaming" => \A r \in DOMAIN spans : spans[r].empty_pass_count <= 2)
    /\ [][(ChangeStep /\ wpc' = "streaming") =>
            \A r \in (DOMAIN spans) \cup RowsOf(stream'[Len(stream')].hits) :
               /\ r \in DOMAIN spans' <=> C14_CountAfter(r) <= 2
               /\ r \in DOMAIN spans' =>
                     /\ spans'[r].empty_pass_count = C14_CountAfter(r)
                     /\ ~spans'[r].pixel_added
               /\ r \notin DOMAIN spans' => r \in Written' \ Written
               /\ DataIn(stream', NthLastChange(Changes(stream), 3), Len(stream'), r)
                     => r \in DOMAIN spans' /\ r \notin Written' \ Written]_vars

\* a direction change drained row 0 after three empty passes and kept a row
\* that had its first empty pass
C14_Witness ==
    /\ wpc = "streaming"
    /\ rows_written = <<0>>
    /\ \E r \in DOMAIN spans : spans[r].empty_pass_count = 1
    /\ Len(spectra) = ColCount

\* C15: no row is written to the archive twice; when a row that was drained
\* before is selected for draining again the writer aborts without emitting a
\* spectrum of that row.
C15_Selected(r) ==
    /\ r \in DOMAIN spans'
       \/ r \in Written'
    /\ \/ FinalStep /\ r \in DOMAIN spans
       \/ /\ ChangeStep /\ r \in DOMAIN spans /\ spans[r].empty_pass_count = 2
          /\ ~DataIn(stream', NthLastChange(Changes(stream), 1), Len(stream'), r)

SpectraOf(r, c) ==
    {k \in 1..Len(spectra) : spectra[k].pixel_row = r + 1 /\ spectra[k].pixel_column = c + 1}

\* C16: when stream_convert_and_save returns Ok the row map is empty, every
\* row that received an m/z value was written exactly once as one spectrum per
\* image column, and every m/z value appended to a row is counted in exactly
\* one written spectrum.
C16_EveryRowWrittenOnce ==
    wpc = "ok" =>
        /\ DOMAIN spans = {}
        /\ \A r \in RowsWithData(stream) : \A c \in 0..(ColCount - 1) :
              /\ Cardinality(SpectraOf(r, c)) = 1
              /\ \A k \in SpectraOf(r, c) :
                    spectra[k].spectrum_sum = Cardinality(ValuesAt(stream, r, c))
        /\ \A k \in 1..Len(spectra) : spectra[k].pixel_row - 1 \in RowsWithData(stream)

\* the same statement for the rows below the upper crop bound of scan_write_rows
C16_BelowCrop ==
    wpc = "ok" =>
        /\ DOMAIN spans = {}
        /\ \A r \in RowsWithData(stream) : r < HIGH_CROP_ROW =>
              \A c \in 0..(ColCount - 1) :
                 /\ Cardinality(SpectraOf(r, c)) = 1
                 /\ \A k \in SpectraOf(r, c) :
                       spectra[k].spectrum_sum = Cardinality(ValuesAt(stream, r, c))

\* C17: the k-th spectrum emitted (counted from 0 over the whole run) has index
\* k; the index starts at 0 and grows by exactly 1 per emitted spectrum.
C17_IndexCountsSpectra ==
    /\ [](wpc # "off" =>
            /\ index = Len(spectra)
            /\ \A k \in 1..Len(spectra) : spectra[k].index = k - 1)
    /\ [][wpc # "off" =>
            /\ index' = index + Len(NewSpectra)
            /\ SubSeq(spectra', 1, Len(spectra)) = spectra]_vars

\* spectra were emitted in two flushes
C17_Witness ==
    /\ wpc = "ok"
    /\ Len(rows_written) >= 2
    /\ Len(spectra) = 2 * ColCount
    /\ spectra[2 * ColCount].index = (2 * ColCount) - 1
    /\ \E k \in 1..Len(stream) : IsChange(stream, k) /\ k < Len(stream)
    /\ spectra[1].pixel_row # spectra[Len(spectra)].pixel_row

\* (pixel_row, pixel_column) of a is lexicographically smaller than that of b
LexLess(a, b) ==
    \/ a.pixel_row < b.pixel_row
    \/ a.pixel_row = b.pixel_row /\ a.pixel_column < b.pixel_column

\* C18 as stated: over the whole archive the spectrum with the smaller index
\* has the lexicographically smaller (pixel_row, pixel_column).
C18_GlobalRowOrder ==
    \A i, j \in 1..Len(spectra) :
        spectra[i].index < spectra[j].index => LexLess(spectra[i], spectra[j])

\* C18 amended: within one flush (one call of scan_write_rows) the indices are
\* assigned in row-ascending, column-ascending order, and within one row always
\* in column-ascending order; rows drained by different flushes follow the
\* order of the flushes.
C18_OrderWithinFlush ==
    /\ [][\A i, j \in 1..Len(NewSpectra) :
             NewSpectra[i].index < NewSpectra[j].index
                => LexLess(NewSpectra[i], NewSpectra[j])]_vars
    /\ [](\A i, j \in 1..Len(spectra) :
             (spectra[i].pixel_row = spectra[j].pixel_row
              /\ spectra[i].index < spectra[j].index)
                => spectra[i].pixel_column < spectra[j].pixel_column)

\* one flush drained two rows, in ascending order
C18_Witness ==
    /\ wpc = "ok"
    /\ Changes(stream) = {}
    /\ rows_written = <<0, 1, RowCount - 1>>
    /\ Len(spectra) = 2 * ColCount
    /\ spectra[1].pixel_row = 1 /\ spectra[ColCount + 1].pixel_row = 2

\* C19: mz_offset[0] = 16, int_offset[k] = mz_offset[k] + mz_enc_len[k],
\* mz_offset[k+1] = int_offset[k] + int_enc_len[k], and the running offset is
\* 16 plus the number of payload bytes written to the IBD so far.
PayloadBytes(f) == Cardinality({i \in 1..Len(f) : f[i].t # "uuid"})

C19_OffsetsChain ==
    wpc \notin {"off", "new"} =>
        /\ Len(spectra) > 0 => spectra[1].mz_offset = 16
        /\ \A k \in 1..Len(spectra) :
              /\ spectra[k].int_offset = spectra[k].mz_offset + spectra[k].mz_enc_len
              /\ k < Len(spectra) =>
                    spectra[k + 1].mz_offset = spectra[k].int_offset + spectra[k].int_enc_len
        /\ offset = 16 + PayloadBytes(ibd_file)
        /\ offset = Len(ibd_file)

\* three spectra were written and the third starts after m/z and intensity
\* bytes of the ones before it
C19_Witness ==
    /\ wpc = "ok"
    /\ Len(spectra) >= 3
    /\ spectra[1].mz_enc_len > 0 /\ spectra[1].int_enc_len > 0
    /\ spectra[3].mz_offset > 16 + spectra[1].mz_enc_len
    /\ offset > spectra[3].mz_offset

\* C20: the checksum is finalised exactly once and last: the digest is taken
\* over the whole IBD file after the last spectrum and the footer were written,
\* no IBD write follows, and the header is rewritten at offset 0 with a string
\* of the length of the first header, so that no byte of a spectrum or of the
\* footer is overwritten or shifted.
C20_ChecksumOnceAndLast ==
    /\ [](header.sha1sum # DummyChecksum /\ wpc # "off" =>
            /\ wpc \in {"hashed", "ok"}
            /\ header.sha1sum = hex_string(Sha1(ibd_file))
            /\ Len(header.sha1sum) = Len(DummyChecksum)
            /\ imzml_file[Len(imzml_file)] = IMZML_FOOTER[1]
            /\ Cardinality({i \in 1..Len(imzml_file) : imzml_file[i].t = "spectrum"})
                  = Len(spectra))
    /\ [](wpc = "ok" =>
            /\ header.sha1sum # DummyChecksum
            /\ imzml_file = header_to_string(header)
                            \o [k \in 1..Len(spectra) |-> [t |-> "spectrum", c |-> k]]
                            \o IMZML_FOOTER)
    /\ [][/\ header' # header => wpc = "footer" /\ header.sha1sum = DummyChecksum
          /\ wpc \in {"footer", "hashed", "ok"} =>
                /\ ibd_file' = ibd_file /\ spectra' = spectra
                /\ Len(imzml_file') = Len(imzml_file)
                /\ \A i \in 1..Len(imzml_file) :
                      imzml_file[i].t # "header" => imzml_file'[i] = imzml_file[i]]_vars

\* a run with spectra ended with the digest in the header
C20_Witness ==
    /\ wpc = "ok"
    /\ Len(spectra) >= 2 * ColCount
    /\ header.sha1sum # DummyChecksum
    /\ \E i \in 1..20 : Sha1(ibd_file)[i] < 16

\* what the writer holds after scan_write_rows
Outcome(w) ==
    <<w.spectra, w.index, w.offset, w.ibd_file, w.imzml_file, w.rows_written, w.spans,
      w.status>>

\* C21: the spectra emitted (order, indices, positions, offsets) are a function
\* of the input stream: whatever order the row map is iterated in, a flush
\* leaves the same spectra, files, ledger and map, and that is the state the
\* writer is in after the flush.
C21_FlushIgnoresMapOrder ==
    [][/\ ChangeStep =>
            LET sp2 == end_pass(add_hits(spans, stream'[Len(stream')].hits))
            IN  \A o \in iteration_orders(finished_keys(sp2)) :
                   LET w == scan_write_rows(Writer(sp2), sort_unstable(o))
                   IN  /\ Outcome(w)[1] = spectra' /\ Outcome(w)[2] = index'
                       /\ Outcome(w)[3] = offset' /\ Outcome(w)[4] = ibd_file'
                       /\ Outcome(w)[5] = imzml_file' /\ Outcome(w)[6] = rows_written'
                       /\ Outcome(w)[7] = spans'
                       /\ (w.status = "ok") = (wpc' = "streaming")
       /\ FinalStep =>
            \A o \in iteration_orders(DOMAIN spans) :
               LET w == scan_write_rows(Writer(spans), sort_unstable(o))
               IN  /\ Outcome(w)[1] = spectra' /\ Outcome(w)[2] = index'
                   /\ Outcome(w)[3] = offset' /\ Outcome(w)[4] = ibd_file'
                   /\ Outcome(w)[5] = imzml_file' /\ Outcome(w)[6] = rows_written'
                   /\ Outcome(w)[7] = spans'
                   /\ (w.status = "ok") = (wpc' = "drained")]_vars

\* the last flush took three rows from the map, which has six iteration orders
C21_Witness ==
    /\ wpc = "drained"
    /\ Len(rows_written) = 3
    /\ Len(stream) = 2
    /\ Len(spectra) = 2 * ColCount

\* ------------------------------------------------------------------------
\* The rasterizers of image.rs: to_buffer (total ion count) and
\* times_to_buffers (one image per peak time).  The configuration has
\* rotation 0 (rot_sin = 0, rot_cos = 1), scale_x_fov = scale_y_fov =
\* 1 / FOV_DIV and pixels_per_mm = 1; coordinates are whole numbers or
\* INFINITY.
\* ------------------------------------------------------------------------
MaxPairs == 2

FOV_DIV == 16
INFINITY == 2147483647
TOF_PULSE_LENGTH == 56673605
PEAK_TIME_WINDOW == 100000

I32_LIMIT == <<214, 7483648>>    \* 2^31

\* the peak times handed to times_to_buffers
PeakTimes == <<1000000, 3000000>>

\* (col << 8) | row
to_cr(h) == (h.col * 256) + h.row

\* meta.dead_pixels: the pixel at col 10, row 20
DeadPixels == <<(10 * 256) + 20>>

never_dead(h, dead_pixels) == FALSE

\* dead_pixels.iter().any(|&dp| dp == self.to_cr())
is_dead(h, dead_pixels) == \E i \in 1..Len(dead_pixels) : dead_pixels[i] = to_cr(h)

\* the filter on the hits of a pulse, in both rasterizers
survives(h) == h.size > 1 \/ ~is_dead(h, DeadPixels)

is_not_inf(c) == c.x # INFINITY /\ c.y # INFINITY

\* Hit::rotate for rotation 0, in 255ths of a detector pixel:
\* xrot = col + col_offset / 255, yrot = 255 - row - row_offset / 255
rotate(h) ==
    <<(255 * h.col) + h.col_offset, (255 * 255) - (255 * h.row) - h.row_offset>>

\* indexify: ((coord + rot * fov) * ppmm).to_int_unchecked::<usize>().  For an
\* infinite coordinate the conversion is undefined: any index may come out,
\* here one inside every image and one outside.
indexify(rot, coord) ==
    IF coord = INFINITY THEN {0, RowCount + ColCount}
    ELSE {coord + (rot \div (255 * FOV_DIV))}

\* *buffers.get_unchecked_mut(i) += 1 on a buffer of zeros
increment(b, i) ==
    [k \in (DOMAIN b) \cup {i} |->
        (IF k \in DOMAIN b THEN b[k] ELSE 0) + (IF k = i THEN 1 ELSE 0)]

\* raster_hit without the test irow < rows && icol < cols
raster_hit_unchecked(b, h, c, page) ==
    {increment(b, icol + (irow * ColCount) + page) :
        icol \in indexify(rotate(h)[1], c.x), irow \in indexify(rotate(h)[2], c.y)}

\* the buffers a hit can leave: b with index icol + irow * cols + page
\* incremented if the pixel is inside the image
raster_hit(b, h, c, page) ==
    {IF irow < RowCount /\ icol < ColCount
     THEN increment(b, icol + (irow * ColCount) + page)
     ELSE b :
        icol \in indexify(rotate(h)[1], c.x), irow \in indexify(rotate(h)[2], c.y)}

\* to_buffer: the hits of one (pulse, coordinate) pair
RECURSIVE tic_hits(_, _, _)
tic_hits(b, hits, c) ==
    IF hits = <<>> THEN {b}
    ELSE UNION {tic_hits(b1, Tail(hits), c) :
                   b1 \in (IF survives(hits[1]) THEN raster_hit(b, hits[1], c, 0) ELSE {b})}

\* to_buffer: one turn of the loop over reader.zip(coords).filter(is_not_inf)
to_buffer_pair(b, pulse_, c) == IF is_not_inf(c) THEN tic_hits(b, pulse_.hits, c) ELSE {b}

\* (x as i32) for 0 <= x: the low 32 bits, read as a signed number
as_i32(x) ==
    LET m == BigMod(x, U32_MOD)
    IN  IF BigLess(m, I32_LIMIT) THEN Val(m) ELSE Val(BigSub(m, U32_MOD))

\* the remainder of i32 % i32: it has the sign of the dividend
rem_i32(x, m) == IF x >= 0 THEN x % m ELSE 0 - ((0 - x) % m)

\* ((hit.toa - time) as i32 % tpl) as u64; a negative remainder becomes a
\* number of at least 2^63, which is written here as the negative number
tof_u64(h, time) == rem_i32(as_i32(BigSub(h.toa, time)), TOF_PULSE_LENGTH)

betwix_open(v, pt, ptw) == v >= 0 /\ v > pt - ptw /\ v - (pt - ptw) < ptw + ptw

\* v.wrapping_sub(pt - ptw) < ptw + ptw for ptw <= pt < 2^31: below pt - ptw
\* the difference wraps to more than 2^63
betwix(v, pt, ptw) == v >= 0 /\ v >= pt - ptw /\ v - (pt - ptw) < ptw + ptw

\* times_to_buffers: the loop over the peak times for one hit, from peak j
RECURSIVE mass_peaks(_, _, _, _, _)
mass_peaks(b, h, c, time, j) ==
    IF j > Len(PeakTimes) THEN {b}
    ELSE UNION {mass_peaks(b1, h, c, time, j + 1) :
                   b1 \in (IF betwix(tof_u64(h, time), PeakTimes[j], PEAK_TIME_WINDOW)
                           THEN raster_hit(b, h, c, ColCount * RowCount * (j - 1))
                           ELSE {b})}

RECURSIVE mass_hits(_, _, _, _)
mass_hits(b, hits, c, time) ==
    IF hits = <<>> THEN {b}
    ELSE UNION {mass_hits(b1, Tail(hits), c, time) :
                   b1 \in (IF survives(hits[1]) THEN mass_peaks(b, hits[1], c, time, 1)
                           ELSE {b})}

\* times_to_buffers: one turn of the loop over reader.zip(coords)
times_to_buffers_pair(b, pulse_, c) == mass_hits(b, pulse_.hits, c, pulse_.time)

\* Input: pulses as the reader yields them and coordinates
RasterTime == <<100, 0>>

RasterHit(col, row, size, tof) ==
    [col |-> col, row |-> row, size |-> size, col_offset |-> 0, row_offset |-> 0,
     toa |-> BigAdd(RasterTime, tof)]

RasterPulse(hits) == [time |-> RasterTime, hits |-> hits]

\* a single hit and a cluster of three on the dead pixel
PulseDead ==
    RasterPulse(<<RasterHit(10, 20, 1, Big(950000)), RasterHit(10, 20, 3, Big(950000))>>)

\* flight times around the window of the first peak
PulseWindow ==
    RasterPulse(<<RasterHit(3, 4, 0, Big(900001)), RasterHit(3, 4, 0, Big(900002)),
                  RasterHit(3, 4, 0, Big(1099999)), RasterHit(3, 4, 0, Big(1100000))>>)

\* the lower end of the window, one below it, a flight time of 2^32 + 950_000
\* and one of a pulse length + 3_050_000
PulseEdge ==
    RasterPulse(<<RasterHit(3, 4, 0, Big(900000)), RasterHit(3, 4, 0, Big(899999)),
                  RasterHit(3, 4, 0, <<429, 5917296>>),
                  RasterHit(3, 4, 0, Big(TOF_PULSE_LENGTH + 3050000))>>)

RasterPulses == {PulseDead, PulseWindow, PulseEdge}

RasterCoords ==
    {[x |-> 0, y |-> 0, direction |-> "Right"],
     [x |-> ColCount, y |-> 0, direction |-> "Right"],
     [x |-> INFINITY, y |-> 0, direction |-> "Left"]}

InitRaster ==
    /\ file = <<>> /\ fpos = 0 /\ buffer = <<>> /\ buffer_index = 0
    /\ pulse = DefaultPulse /\ trolls = 0 /\ hrolls = 0
    /\ ptdc = Big(0) /\ ptoa = Big(0) /\ ptri = 0
    /\ pc = "idle" /\ out = <<>>
    /\ cpulse = DefaultPulse /\ orig = DefaultPulse /\ phase = "off"
    /\ CodecIdle
    /\ ArchiveIdle
    /\ tdc_reader = NewTdcReader /\ tdc_out = <<>> /\ passes = NewPasses
    /\ coordinates = <<>> /\ ipc = "off"
    /\ pairs = <<>> /\ tic_buffer = <<>> /\ mass_buffers = <<>> /\ rpc = "tic"
    /\ ReportIdle

rasterRest == <<readerVars, clusterVars, codecVars, archiveVars,
                tdc_reader, tdc_out, passes, coordinates, ipc, reportVars>>

\* to_buffer takes the next pulse and the next coordinate
TicPair ==
    /\ rpc = "tic" /\ Len(pairs) < MaxPairs
    /\ \E p \in RasterPulses, c \in RasterCoords :
          /\ pairs' = Append(pairs, [pulse |-> p, coordinates |-> c])
          /\ tic_buffer' \in to_buffer_pair(tic_buffer, p, c)
    /\ rpc' = "mass"
    /\ UNCHANGED <<mass_buffers, rasterRest>>

\* times_to_buffers takes the same pulse and coordinate
MassPair ==
    /\ rpc = "mass"
    /\ LET pair == pairs[Len(pairs)]
       IN  mass_buffers' \in times_to_buffers_pair(mass_buffers, pair.pulse, pair.coordinates)
    /\ rpc' = "tic"
    /\ UNCHANGED <<pairs, tic_buffer, rasterRest>>

NextRaster == TicPair \/ MassPair

SpecRaster == InitRaster /\ [][NextRaster]_vars

\* ------------------------------------------------------------------------
\* Claims about the rasterizers
\* ------------------------------------------------------------------------
\* the number of increments a buffer has received
RECURSIVE Total(_)
Total(b) ==
    IF DOMAIN b = {} THEN 0
    ELSE LET k == CHOOSE x \in DOMAIN b : TRUE
         IN  b[k] + Total([x \in (DOMAIN b) \ {k} |-> b[x]])

LastPair == pairs[Len(pairs)]

\* the hit lies on the dead pixel at col 10, row 20
OnDeadPixel(h) == h.col = 10 /\ h.row = 20

\* the hit passes the dead-pixel filter as the claim states it
Contributes(h) == IF h.size > 1 THEN TRUE ELSE ~OnDeadPixel(h)

\* the image pixel of a hit at a finite coordinate lies inside the image
InImage(h, c) ==
    /\ c.x + (h.col \div FOV_DIV) < ColCount
    /\ c.y + ((255 - h.row) \div FOV_DIV) < RowCount

\* the peaks whose window holds the flight time of the hit
PeaksOf(h, time) ==
    {j \in 1..Len(PeakTimes) : betwix(tof_u64(h, time), PeakTimes[j], PEAK_TIME_WINDOW)}

\* C22: at a finite coordinate the TIC buffer receives one increment for
\* every in-image hit that has size > 1 or does not lie on the dead pixel and
\* none for any other hit, and the per-mass buffers receive, for the same
\* hits, one increment per peak window; a size-1 hit and a size-3 hit on the
\* dead pixel give the TIC buffer exactly one increment.
C22_DeadPixelFilter ==
    [][/\ (TicPair /\ is_not_inf(LastPair'.coordinates)) =>
            Total(tic_buffer') - Total(tic_buffer) =
                Cardinality({i \in 1..Len(LastPair'.pulse.hits) :
                    /\ Contributes(LastPair'.pulse.hits[i])
                    /\ InImage(LastPair'.pulse.hits[i], LastPair'.coordinates)})
       /\ (MassPair /\ is_not_inf(LastPair.coordinates)) =>
            \A j \in 1..Len(PeakTimes) :
                Total([k \in {x \in DOMAIN mass_buffers' :
                                 x \div (ColCount * RowCount) = j - 1} |-> mass_buffers'[k]])
                - Total([k \in {x \in DOMAIN mass_buffers :
                                 x \div (ColCount * RowCount) = j - 1} |-> mass_buffers[k]])
                = Cardinality({i \in 1..Len(LastPair.pulse.hits) :
                    /\ Contributes(LastPair.pulse.hits[i])
                    /\ InImage(LastPair.pulse.hits[i], LastPair.coordinates)
                    /\ j \in PeaksOf(LastPair.pulse.hits[i], LastPair.pulse.time)})
       /\ (TicPair /\ pairs = <<>> /\ LastPair'.pulse = PulseDead
              /\ LastPair'.coordinates.x = 0 /\ LastPair'.coordinates.y = 0) =>
            Total(tic_buffer') = 1
      ]_vars

C22_Witness ==
    /\ rpc = "tic" /\ Len(pairs) = 1
    /\ pairs[1].pulse = PulseDead
    /\ pairs[1].coordinates.x = 0 /\ pairs[1].coordinates.y = 0
    /\ Total(tic_buffer) = 1 /\ Total(mass_buffers) = 1

\* the increments page j of the per-mass buffers has received (j from 1)
PageTotal(b, j) ==
    Total([k \in {x \in DOMAIN b : x \div (ColCount * RowCount) = j - 1} |-> b[k]])

\* the flight time of the hit modulo the pulse length
TofMod(h, time) == Val(BigMod(BigSub(h.toa, time), Big(TOF_PULSE_LENGTH)))

\* the window as stated: |t - pts[j]| < ptw with t the flight time modulo
\* the pulse length
InWindowStated(h, time, j) == Abs(TofMod(h, time) - PeakTimes[j]) < PEAK_TIME_WINDOW

\* the window of the code: pts[j] - ptw <= t < pts[j] + ptw with t the low 32
\* bits of the flight time, read as a signed number, remainder by the pulse
\* length
InWindowHalfOpen(h, time, j) ==
    /\ tof_u64(h, time) >= PeakTimes[j] - PEAK_TIME_WINDOW
    /\ tof_u64(h, time) < PeakTimes[j] + PEAK_TIME_WINDOW

\* the hits of the last pair that page j counts, given the window
Counted(j, InWindow) ==
    Cardinality({i \in 1..Len(LastPair.pulse.hits) :
        /\ survives(LastPair.pulse.hits[i])
        /\ InImage(LastPair.pulse.hits[i], LastPair.coordinates)
        /\ InWindow[i]})

IsWindowExample ==
    /\ mass_buffers = <<>> /\ LastPair.pulse = PulseWindow
    /\ LastPair.coordinates.x = 0 /\ LastPair.coordinates.y = 0

\* C23 (as stated): times_to_buffers increments buffer j for a surviving
\* in-image hit iff |t - pts[j]| < ptw with t = (toa - time) mod
\* tof_pulse_length; hits at 900,001, 900,002, 1,099,999 and 1,100,000 around
\* a peak at 1,000,000 with ptw 100,000 give exactly 2 increments.
C23_WindowAsStated ==
    [][(MassPair /\ is_not_inf(LastPair.coordinates)) =>
          /\ \A j \in 1..Len(PeakTimes) :
                PageTotal(mass_buffers', j) - PageTotal(mass_buffers, j) =
                    Counted(j, [i \in 1..Len(LastPair.pulse.hits) |->
                        InWindowStated(LastPair.pulse.hits[i], LastPair.pulse.time, j)])
          /\ IsWindowExample => Total(mass_buffers') = 2
      ]_vars

\* C23 (amended): times_to_buffers increments buffer j for a surviving
\* in-image hit iff pts[j] - ptw <= t < pts[j] + ptw with t the low 32 bits of
\* toa - time, read as a signed number, remainder by tof_pulse_length; hits at
\* 900,001, 900,002, 1,099,999 and 1,100,000 around a peak at 1,000,000 with
\* ptw 100,000 give exactly 3 increments.
C23_WindowHalfOpen ==
    [][(MassPair /\ is_not_inf(LastPair.coordinates)) =>
          /\ \A j \in 1..Len(PeakTimes) :
                PageTotal(mass_buffers', j) - PageTotal(mass_buffers, j) =
                    Counted(j, [i \in 1..Len(LastPair.pulse.hits) |->
                        InWindowHalfOpen(LastPair.pulse.hits[i], LastPair.pulse.time, j)])
          /\ IsWindowExample => Total(mass_buffers') = 3
      ]_vars

C23_Witness ==
    /\ rpc = "tic" /\ Len(pairs) = 1
    /\ pairs[1].pulse = PulseWindow
    /\ pairs[1].coordinates.x = 0 /\ pairs[1].coordinates.y = 0
    /\ PageTotal(mass_buffers, 1) = 3 /\ PageTotal(mass_buffers, 2) = 0

\* C24: to_buffer and times_to_buffers both skip a (pulse, coordinate) pair
\* whose coordinate has an infinite component: the pair leaves the buffers
\* as they were, and the next pulse is paired with the next coordinate.
C24_InfinitePairsSkipped ==
    [][/\ (TicPair /\ ~is_not_inf(LastPair'.coordinates)) =>
            /\ tic_buffer' = tic_buffer
            /\ Len(pairs') = Len(pairs) + 1
       /\ (MassPair /\ ~is_not_inf(LastPair.coordinates)) =>
            /\ mass_buffers' = mass_buffers
            /\ pairs' = pairs
      ]_vars

\* ------------------------------------------------------------------------
\* TDCReader (reader.rs) and the coordinates of image.rs:
\* to_pulse_passes and auto_generate_coordinates
\* ------------------------------------------------------------------------
\* 30_000_000_000: the gap between two passes
PASS_GAP == <<3000, 0>>

TdcE == TdcPacket(6, Big(1200000), 0, 2)       \* decodes to 30_000_000_251 ps
TdcP == TdcPacket(4, Big(1300000), 0, 1)       \* decodes to 32_500_000_000 ps
TdcQ == TdcPacket(5, Big(2600000), 0, 1)       \* decodes to 65_000_000_000 ps

CoordPackets == {TdcZ, TdcB, TdcE, TdcP, TdcQ, HitLo, BlobS, Skip4, Header}

CoordFiles == UNION {[1..n -> CoordPackets] : n \in 0..MaxFileLen}

\* self.ptdc + self.trolls * TDC_LIMIT
tdc_pending(r) == BigAdd(r.ptdc, BigMulSmall(TDC_LIMIT, r.trolls))

\* TDCReader::next on the file f: the reader afterwards and what is returned.
\* tdc_loop is the for loop, from packet k of the buffer.
RECURSIVE tdc_next(_, _)
RECURSIVE tdc_loop(_, _, _)
tdc_next(r, f) ==
    IF r.buffer_index = 0
    THEN LET n == Min(BUFFER_PACKETS, Len(f) - r.fpos)
         IN  IF n = 0
             THEN IF r.tdc_full = tdc_pending(r)
                  THEN [reader |-> [r EXCEPT !.buffer = <<>>],
                        some |-> FALSE, value |-> Big(0)]
                  ELSE [reader |-> [r EXCEPT !.buffer = <<>>, !.tdc_full = tdc_pending(r)],
                        some |-> TRUE, value |-> tdc_pending(r)]
             ELSE tdc_loop([r EXCEPT !.buffer = SubSeq(f, r.fpos + 1, r.fpos + n),
                                     !.fpos = r.fpos + n], f, 0)
    ELSE tdc_loop(r, f, r.buffer_index \div 8)

tdc_loop(r, f, k) ==
    IF k >= Len(r.buffer)
    THEN tdc_next([r EXCEPT !.buffer_index = 0], f)
    ELSE IF r.buffer[k + 1].nib = 6
         THEN LET tdc == parse_tdc_packet(r.buffer[k + 1])[1]
                  r1 == [r EXCEPT !.tdc_full = tdc_pending(r),
                                  !.trolls = r.trolls + tdc_rolled(tdc, r.ptdc),
                                  !.ptdc = tdc,
                                  !.first_loop = FALSE]
              IN  IF r.first_loop
                  THEN tdc_loop(r1, f, k + 1)
                  ELSE [reader |-> [r1 EXCEPT !.buffer_index = 8 * (k + 1)],
                        some |-> TRUE, value |-> r1.tdc_full]
         ELSE tdc_loop(r, f, k + 1)

\* the body of the for loop of to_pulse_passes
pass_step(ps, tdc) ==
    IF BigLess(BigAdd(ps.prev_tdc, PASS_GAP), tdc) /\ ps.prev_tdc # Big(0)
    THEN [prev_tdc |-> tdc, pulse_rows |-> Append(ps.pulse_rows, ps.row), row |-> <<tdc>>]
    ELSE [prev_tdc |-> tdc, pulse_rows |-> ps.pulse_rows, row |-> Append(ps.row, tdc)]

reverse(d) ==
    CASE d = "Up" -> "Down" [] d = "Down" -> "Up" [] d = "Left" -> "Right" [] d = "Right" -> "Left"

\* the coordinates of pass i (from 0) of n.  x is the fraction of the width as
\* <<numerator, denominator>> (0 / 0 for a pass of one time), y the fraction of
\* the height.
row_coords(row, i, n, d) ==
    LET start == row[1]
        row_time == BigSub(row[Len(row)], start)
    IN  [k \in 1..Len(row) |->
            [x |-> IF d = "Right" THEN <<BigSub(row[k], start), row_time>>
                   ELSE <<BigSub(row_time, BigSub(row[k], start)), row_time>>,
             y |-> <<i, n - 1>>,
             direction |-> d]]

\* the loop over pulse_passes, from pass i with direction d
RECURSIVE pass_coords(_, _, _)
pass_coords(rows, i, d) ==
    IF i >= Len(rows) THEN <<>>
    ELSE row_coords(rows[i + 1], i, Len(rows), d) \o pass_coords(rows, i + 1, reverse(d))

InitCoords ==
    /\ file \in CoordFiles
    /\ fpos = 0 /\ buffer = <<>> /\ buffer_index = 0
    /\ pulse = DefaultPulse /\ trolls = 0 /\ hrolls = 0
    /\ ptdc = Big(0) /\ ptoa = Big(0) /\ ptri = 0
    /\ pc = "idle" /\ out = <<>>
    /\ cpulse = DefaultPulse /\ orig = DefaultPulse /\ phase = "off"
    /\ CodecIdle
    /\ ArchiveIdle
    /\ tdc_reader = NewTdcReader /\ tdc_out = <<>> /\ passes = NewPasses
    /\ coordinates = <<>> /\ ipc = "passes"
    /\ pairs = <<>> /\ tic_buffer = <<>> /\ mass_buffers = <<>> /\ rpc = "off"
    /\ ReportIdle

coordsRest == <<readerVars, clusterVars, codecVars, archiveVars,
                pairs, tic_buffer, mass_buffers, rpc, reportVars>>

\* one turn of the for loop of to_pulse_passes: TDCReader::next and the body
TdcNext ==
    /\ ipc = "passes"
    /\ LET res == tdc_next(tdc_reader, file)
       IN  /\ tdc_reader' = res.reader
           /\ IF res.some
              THEN /\ tdc_out' = Append(tdc_out, res.value)
                   /\ passes' = pass_step(passes, res.value)
                   /\ ipc' = ipc
              ELSE /\ ipc' = "generate"
                   /\ UNCHANGED <<tdc_out, passes>>
    /\ UNCHANGED <<coordinates, coordsRest>>

\* auto_generate_coordinates, after to_pulse_passes has returned pulse_rows
GenerateCoordinates ==
    /\ ipc = "generate"
    /\ coordinates' = pass_coords(passes.pulse_rows, 0, "Right")
    /\ ipc' = "done"
    /\ UNCHANGED <<tdc_reader, tdc_out, passes, coordsRest>>

\* the pulses of the same file, read by TPX3Reader
ReadPulses == ipc = "done" /\ Next

NextCoords == TdcNext \/ GenerateCoordinates \/ ReadPulses

SpecCoords == InitCoords /\ [][NextCoords]_vars

\* ------------------------------------------------------------------------
\* Claims about the TDC reader and the coordinates
\* ------------------------------------------------------------------------
\* the pulses TPX3Reader has yielded
PulsesYielded == Cardinality({i \in 1..Len(out) : out[i].some})

\* C25: when auto_generate_coordinates has returned, the coordinate list has
\* one Coord for every TDC time the TDC reader yielded, so it is as long as
\* the TDC sequence, and it is not shorter than the sequence of pulses that
\* TPX3Reader yields for the same file.
C25_OneCoordPerTdc ==
    ipc = "done" =>
        /\ Len(coordinates) = Len(tdc_out)
        /\ (pc = "idle" /\ Nones >= 1) => Len(coordinates) >= PulsesYielded

\* the passes to_pulse_passes has formed so far, the one it is filling included
AllPasses == passes.pulse_rows \o (IF passes.row = <<>> THEN <<>> ELSE <<passes.row>>)

\* the pass (from 0) that holds the k-th time of the rows
RECURSIVE PassAt(_, _)
PassAt(rows, k) ==
    IF k <= Len(rows[1]) THEN 0 ELSE 1 + PassAt(Tail(rows), k - Len(rows[1]))

ExceedsGap(a, b) == BigLess(BigAdd(a, PASS_GAP), b)

DirectionsAlternate ==
    \A k \in 1..Len(coordinates) :
        coordinates[k].direction =
            IF PassAt(passes.pulse_rows, k) % 2 = 0 THEN "Right" ELSE "Left"

\* C26: two consecutive TDC times are in the same pass iff the later exceeds
\* the earlier by no more than 30_000_000_000, and the coordinates of pass i
\* (from 0) have direction Right for even i and Left for odd i.
C26_PassesByGap ==
    /\ \A k \in 1..(Len(tdc_out) - 1) :
          (PassAt(AllPasses, k) = PassAt(AllPasses, k + 1))
              <=> ~ExceedsGap(tdc_out[k], tdc_out[k + 1])
    /\ ipc = "done" => DirectionsAlternate

TdcCount == Cardinality({j \in 1..Len(file) : IsTdc(j)})

\* the position in the file of the n-th TDC packet
NthTdc(n) ==
    CHOOSE j \in 1..Len(file) : IsTdc(j) /\ Cardinality({i \in 1..j : IsTdc(i)}) = n

\* the rollover-corrected time of the TDC packet at position j
FullTdc(j) == BigAdd(RawTdc(j), BigMulSmall(TDC_LIMIT, Rollovers(j)))

\* C27: for a file with N >= 2 TDC packets, when TDCReader has returned None
\* it has yielded the rollover-corrected times of the TDC packets 2..N, each
\* once and in file order, and nothing for the first TDC packet.
C27_YieldsSecondAndLater ==
    (ipc # "passes" /\ TdcCount >= 2) =>
        tdc_out = [k \in 1..(TdcCount - 1) |-> FullTdc(NthTdc(k + 1))]

\* ------------------------------------------------------------------------
\* Chunk headers: 8-byte words whose low 4 bytes are TPX3 (0x33585054), with
\* chip index 0, mode 0 and the chunk size in bits 48..63.  The fields are
\* the ones the decoders read from such a word.
\* ------------------------------------------------------------------------
\* chunk size 0x6000: top nibble 0x6
HdrTdc ==
    [nib |-> 6, trig |-> 0, coarse |-> Big(210309), top |-> 0, fine4 |-> 2, magic |-> TRUE]

\* chunk size 0xB000: top nibble 0xB
HdrHit ==
    [nib |-> 11, dcol |-> 0, spix |-> 0, pix |-> 0, ctoa |-> 0, tot10 |-> 821,
     ftoa |-> 8, spidr |-> 20564, magic |-> TRUE]

\* chunk size 0xC000: top nibble 0xC
HdrBlob == [nib |-> 12, coff |-> 0, roff |-> 0, tc |-> 13144, size |-> 20564, magic |-> TRUE]

\* chunk size 0x4000: top nibble 0x4
HdrSkip == OtherPacket(4, TRUE)

Skip7 == OtherPacket(7, FALSE)

ChunkPackets == {HdrTdc, HdrHit, HdrBlob, HdrSkip, Skip7, Header, Bad, TdcA, HitLo}

ChunkFiles == UNION {[1..n -> ChunkPackets] : n \in 0..MaxFileLen}

InitChunks ==
    /\ file \in ChunkFiles
    /\ fpos = 0 /\ buffer = <<>> /\ buffer_index = 0
    /\ pulse = DefaultPulse /\ trolls = 0 /\ hrolls = 0
    /\ ptdc = Big(0) /\ ptoa = Big(0) /\ ptri = 0
    /\ pc = "idle" /\ out = <<>>
    /\ cpulse = DefaultPulse /\ orig = DefaultPulse /\ phase = "off"
    /\ CodecIdle
    /\ ArchiveIdle
    /\ ImageIdle
    /\ ReportIdle

SpecChunks == InitChunks /\ [][Next]_vars

\* C28: a chunk whose low 4 bytes are TPX3 is ignored whatever its upper
\* 4 bytes are: the step that handles it changes neither the open pulse nor
\* trolls, hrolls, ptdc, ptoa or the trigger register, yields nothing and
\* does not stop the reader.
C28_HeaderIgnored ==
    [][(AtPacket /\ is_tpx3(Packet)) =>
          /\ UNCHANGED <<pulse, trolls, hrolls, ptdc, ptoa, ptri, out, pc>>
          /\ buffer_index' = buffer_index + 8
      ]_vars

\* C29: a packet whose top nibble is none of 0x4, 0x6, 0x7, 0xB, 0xC and
\* whose low 4 bytes are not TPX3 stops the reader with a failed assertion;
\* a packet with top nibble 0x4 or 0x7 is passed over: the open pulse, the
\* rollover counters, the previous-TDC and previous-ToA registers and the
\* trigger register stay as they are, nothing is yielded and decoding goes on.
C29_UnknownPacketAborts ==
    [][/\ (AtPacket /\ Packet.nib \notin {4, 6, 7, 11, 12} /\ ~Packet.magic) =>
            /\ pc' = "panic"
            /\ out' = out
       /\ (AtPacket /\ Packet.nib \in {4, 7}) =>
            /\ UNCHANGED <<pulse, trolls, hrolls, ptdc, ptoa, ptri, out, pc>>
            /\ buffer_index' = buffer_index + 8
      ]_vars

C29_Witness ==
    /\ pc = "panic" /\ Consumed = 3
    /\ file[1] = Skip7 /\ file[2] = HdrSkip /\ file[3] = Bad

\* ------------------------------------------------------------------------
\* Claims about the bit layout of a hit packet
\* ------------------------------------------------------------------------
RECURSIVE BitAnd(_, _)
BitAnd(a, b) ==
    IF a = 0 \/ b = 0 THEN 0
    ELSE ((a % 2) * (b % 2)) + 2 * BitAnd(a \div 2, b \div 2)

\* p >> 44 for a hit packet: pix in bits 0..2, spix in bits 3..8, dcol in
\* bits 9..15, the nibble in bits 16..19
Shr44(p) == p.pix + (8 * p.spix) + (512 * p.dcol) + (65536 * p.nib)

\* p >> 45 and p >> 52
Shr45(p) == Shr44(p) \div 2
Shr52(p) == Shr44(p) \div 256

HitParsed == codec_in.kind = "hit" /\ codec_mid.kind = "hit"

\* C30 (as stated): for every hit packet p, with pix = (p >> 44) & 0x7, the
\* decoded column is ((p >> 52) & 0x7F) + (pix >> 2) and the decoded row is
\* ((p >> 45) & 0x7F) + (pix & 0x3).
C30_Masks7F ==
    HitParsed =>
        LET p == codec_in.packet
            pix == BitAnd(Shr44(p), 7)
        IN  /\ codec_mid.hit.col = BitAnd(Shr52(p), 127) + (pix \div 4)
            /\ codec_mid.hit.row = BitAnd(Shr45(p), 127) + BitAnd(pix, 3)

\* C30 (amended): for every hit packet p, with pix = (p >> 44) & 0x7, the
\* decoded column is ((p >> 52) & 0xFE) + (pix >> 2) and the decoded row is
\* ((p >> 45) & 0xFC) + (pix & 0x3).
C30_MasksFEFC ==
    HitParsed =>
        LET p == codec_in.packet
            pix == BitAnd(Shr44(p), 7)
        IN  /\ codec_mid.hit.col = BitAnd(Shr52(p), 254) + (pix \div 4)
            /\ codec_mid.hit.row = BitAnd(Shr45(p), 252) + BitAnd(pix, 3)

C30_Witness ==
    /\ HitParsed
    /\ codec_in.packet.dcol = 127 /\ codec_in.packet.spix = 63 /\ codec_in.packet.pix = 7
    /\ codec_mid.hit.col = 255 /\ codec_mid.hit.row = 255

\* ------------------------------------------------------------------------
\* Pixel::to_vecs on its own.  The pixel holds `copies` times the value
\* `head`, which is its smallest value, and the values of `rest`; a long run
\* of one value is given by its length.
\* ------------------------------------------------------------------------
MaxPixelLen == 3

MzD == <<250, 99999>>

PixelValues == {MzA, MzB, MzC, MzD}

\* i16::MAX and the run lengths around it
I16_MAX == 32767

PixelCopies == {0, 1, I16_MAX, I16_MAX + 1}

\* to_vecs after the sort has put the copies of head in front: the loop turns
\* n copies into one m/z value with count n (n - 1 times += 1 from 1)
to_vecs_run(p) ==
    IF p.copies = 0 THEN to_vecs(p.rest)
    ELSE to_vecs_loop(sort_pixel(p.rest), 1, p.head[2], <<p.head>>,
                      <<IF p.copies > I16_MAX THEN add_one_i16(I16_MAX) ELSE p.copies>>)

\* a count went past i16::MAX
overflowed(v) == \E i \in 1..Len(v.ints) : v.ints[i] < 0

InitPixel ==
    /\ file = <<>> /\ fpos = 0 /\ buffer = <<>> /\ buffer_index = 0
    /\ pulse = DefaultPulse /\ trolls = 0 /\ hrolls = 0
    /\ ptdc = Big(0) /\ ptoa = Big(0) /\ ptri = 0
    /\ pc = "idle" /\ out = <<>>
    /\ cpulse = DefaultPulse /\ orig = DefaultPulse /\ phase = "off"
    /\ CodecIdle
    /\ ArchiveIdle
    /\ ImageIdle
    /\ PadIdle /\ CompressIdle /\ cpc = "off" /\ MaskIdle /\ mpc = "off"
    /\ \E n \in 0..MaxPixelLen : \E r \in [1..n -> PixelValues] : \E c \in PixelCopies :
          pixel_in = [head |-> MzA, copies |-> c, rest |-> r]
    /\ vecs = [status |-> "none", mzs |-> <<>>, ints |-> <<>>]

pixelRest == <<readerVars, clusterVars, codecVars, archiveVars, imageVars,
               pad_in, pad_out, collection, labelled, pieces, taken, tpx3c_file, cpc,
               mask_buffer, data_len, mask_runs, mpc>>

\* pixel.to_vecs() returns, or aborts on an overflow in a build that checks
ToVecs ==
    /\ vecs.status = "none"
    /\ LET v == to_vecs_run(pixel_in)
       IN  \E abort \in (IF overflowed(v) THEN BOOLEAN ELSE {FALSE}) :
              vecs' = IF abort THEN [status |-> "panic", mzs |-> <<>>, ints |-> <<>>]
                      ELSE [status |-> "returned", mzs |-> v.mzs, ints |-> v.ints]
    /\ UNCHANGED <<pixel_in, pixelRest>>

NextPixel == ToVecs

SpecPixel == InitPixel /\ [][NextPixel]_vars

\* ------------------------------------------------------------------------
\* Claims about Pixel::to_vecs
\* ------------------------------------------------------------------------
\* the number of m/z values the pixel holds
StoredCount == pixel_in.copies + Len(pixel_in.rest)

\* the pixel holds distinct positive values, pushed in increasing order
StrictlyIncreasing ==
    /\ pixel_in.copies <= 1
    /\ \A i \in 1..(Len(pixel_in.rest) - 1) : pixel_in.rest[i][1] < pixel_in.rest[i + 1][1]
    /\ \A i \in 1..Len(pixel_in.rest) :
          /\ pixel_in.rest[i][1] > 0
          /\ pixel_in.copies = 1 => pixel_in.head[1] < pixel_in.rest[i][1]

\* C31: for a pixel that holds a strictly increasing sequence of distinct
\* positive m/z values, to_vecs returns as many m/z values and as many counts
\* as the pixel holds values, and every count is 1.
C31_DistinctValuesKept ==
    (vecs.status = "returned" /\ StrictlyIncreasing) =>
        /\ Len(vecs.mzs) = StoredCount
        /\ Len(vecs.ints) = StoredCount
        /\ \A i \in 1..Len(vecs.ints) : vecs.ints[i] = 1

\* C32: for every pixel to_vecs returns, and it returns an m/z vector and a
\* count vector of equal length, the m/z values ascending, every count above
\* 0, the counts adding up to the number of values the pixel holds.
C32_VectorsWellFormed ==
    vecs.status # "none" =>
        /\ vecs.status = "returned"
        /\ Len(vecs.mzs) = Len(vecs.ints)
        /\ \A i \in 1..(Len(vecs.mzs) - 1) : vecs.mzs[i][1] <= vecs.mzs[i + 1][1]
        /\ \A i \in 1..Len(vecs.ints) : vecs.ints[i] > 0
        /\ SumSeq(vecs.ints) = StoredCount

\* ------------------------------------------------------------------------
\* centroid_cluster_compress (writer.rs): the pulses of the decoder are taken
\* in batches; the workers of a batch run label_hits, then centroid and
\* to_bytes, each on one pulse and in any order; collect() puts the bytes
\* together and write_all appends them to the file.
\* ------------------------------------------------------------------------
BatchSize == 2      \* stands for the 500 of data.chunks(500)
MaxShots == 4

ShotPulses ==
    {DecodedPulse(<<>>),
     DecodedPulse(<<<<10, 20, 0, 25>>>>),
     DecodedPulse(<<<<10, 20, 0, 25>>, <<12, 20, 600000, 25>>>>)}

\* the pieces in the order in which the workers produced them
RECURSIVE collect_as_finished(_, _)
collect_as_finished(ps, n) ==
    IF ps = <<>> THEN <<>> ELSE ps[1].bytes \o collect_as_finished(Tail(ps), n)

\* collect::<Vec<u8>>() of an indexed parallel iterator: the pieces of the
\* positions 1..n, in the order of the positions
RECURSIVE collect(_, _)
collect(ps, n) ==
    IF n = 0 THEN <<>>
    ELSE collect(ps, n - 1) \o (CHOOSE x \in {ps[k] : k \in 1..Len(ps)} : x.at = n).bytes

InitCompress ==
    /\ file = <<>> /\ fpos = 0 /\ buffer = <<>> /\ buffer_index = 0
    /\ pulse = DefaultPulse /\ trolls = 0 /\ hrolls = 0
    /\ ptdc = Big(0) /\ ptoa = Big(0) /\ ptri = 0
    /\ pc = "idle" /\ out = <<>>
    /\ cpulse = DefaultPulse /\ orig = DefaultPulse /\ phase = "off"
    /\ CodecIdle
    /\ ArchiveIdle
    /\ ImageIdle
    /\ PixelIdle /\ PadIdle /\ MaskIdle /\ mpc = "off"
    /\ CompressIdle /\ cpc = "chunk"

compressRest == <<readerVars, clusterVars, codecVars, archiveVars, imageVars,
                  pixel_in, vecs, pad_in, pad_out, mask_buffer, data_len, mask_runs, mpc>>

\* shot.collect(): the next pulses of the decoder, BatchSize of them unless
\* the decoder runs out
TakeBatch ==
    /\ cpc = "chunk"
    /\ \E k \in 1..Min(BatchSize, MaxShots - Len(taken)) : \E ps \in [1..k -> ShotPulses] :
          /\ collection' = ps
          /\ taken' = taken \o ps
    /\ labelled' = {} /\ pieces' = <<>>
    /\ cpc' = "label"
    /\ UNCHANGED <<tpx3c_file, compressRest>>

\* a worker of par_iter_mut().for_each(|p| p.label_hits()) finishes pulse i;
\* for_each returns when all have
LabelWorker ==
    /\ cpc = "label"
    /\ \E i \in (1..Len(collection)) \ labelled :
          /\ collection' = [collection EXCEPT ![i] = label_hits(@)]
          /\ labelled' = labelled \cup {i}
          /\ cpc' = IF labelled \cup {i} = 1..Len(collection) THEN "centroid" ELSE cpc
    /\ UNCHANGED <<pieces, taken, tpx3c_file, compressRest>>

\* a worker of par_iter().flat_map(|p| p.centroid().to_bytes()) finishes
\* pulse i
CentroidWorker ==
    /\ cpc = "centroid"
    /\ \E i \in (1..Len(collection)) \ {pieces[k].at : k \in 1..Len(pieces)} :
          /\ pieces' = Append(pieces, [at |-> i, bytes |-> to_bytes(centroid(collection[i]))])
          /\ cpc' = IF Len(pieces) + 1 = Len(collection) THEN "write" ELSE cpc
    /\ UNCHANGED <<collection, labelled, taken, tpx3c_file, compressRest>>

\* collect() and buffer.write_all(&centroided); a batch shorter than
\* BatchSize was the last one
WriteBatch ==
    /\ cpc = "write"
    /\ tpx3c_file' = tpx3c_file \o collect(pieces, Len(collection))
    /\ cpc' = IF Len(collection) < BatchSize THEN "done" ELSE "chunk"
    /\ UNCHANGED <<collection, labelled, pieces, taken, compressRest>>

\* the decoder has no pulse left: Ok(()) is returned
FinishCompress ==
    /\ cpc = "chunk"
    /\ cpc' = "done"
    /\ UNCHANGED <<collection, labelled, pieces, taken, tpx3c_file, compressRest>>

NextCompress == TakeBatch \/ LabelWorker \/ CentroidWorker \/ WriteBatch \/ FinishCompress

SpecCompress == InitCompress /\ [][NextCompress]_vars

\* ------------------------------------------------------------------------
\* Claims about centroid_cluster_compress
\* ------------------------------------------------------------------------
\* the bytes of the pulses of s, one after the other
RECURSIVE BytesInOrder(_)
BytesInOrder(s) ==
    IF s = <<>> THEN <<>>
    ELSE to_bytes(centroid(label_hits(s[1]))) \o BytesInOrder(Tail(s))

\* C33: whenever a batch has been written, the file holds exactly the bytes
\* centroid(label_hits(p)).to_bytes() of the pulses p taken from the decoder so
\* far, in the order in which the decoder yielded them, whatever the order in
\* which the workers finished.
C33_BytesInDecoderOrder ==
    cpc \in {"chunk", "done"} => tpx3c_file = BytesInOrder(taken)

C33_Witness ==
    /\ cpc = "done" /\ Len(taken) = BatchSize + 1
    /\ taken[1] # taken[2] /\ taken[2] # taken[3]
    /\ tpx3c_file = BytesInOrder(taken)

\* ------------------------------------------------------------------------
\* Further claims about label_hits and centroid
\* ------------------------------------------------------------------------
\* the decoded pulse holds two hits that are two columns apart
TwoIndependentClusters ==
    /\ Len(orig.hits) = 2
    /\ Abs(orig.hits[1].col - orig.hits[2].col) > 1

\* C34: the hits of a centroided pulse have size > 0, index 1, 2, ..., k in
\* output order and label = index + 1, also when a cluster id without hits was
\* skipped, and clusters = k; a pulse with two independent clusters gives two
\* hits with labels 2 and 3.
C34_CentroidLabels ==
    phase = "centroided" =>
        /\ \A k \in 1..Len(cpulse.hits) :
              /\ cpulse.hits[k].size > 0
              /\ cpulse.hits[k].index = k
              /\ cpulse.hits[k].label = k + 1
        /\ cpulse.clusters = Len(cpulse.hits)
        /\ TwoIndependentClusters =>
              /\ Len(cpulse.hits) = 2
              /\ cpulse.hits[1].label = 2 /\ cpulse.hits[2].label = 3

\* two independent hits came out as two hits with labels 2 and 3
C34_Witness ==
    /\ phase = "centroided"
    /\ TwoIndependentClusters
    /\ Len(cpulse.hits) = 2
    /\ cpulse.hits[1].label = 2 /\ cpulse.hits[2].label = 3

\* ------------------------------------------------------------------------
\* Further claims about the rasterizers
\* ------------------------------------------------------------------------
\* the indices whose count differs between two buffers
Incremented(b, b2) == {k \in DOMAIN b2 : k \notin DOMAIN b \/ b2[k] # b[k]}

\* icol + irow * cols for the image pixels the hit can fall on that lie
\* inside the image
PixelsInside(h, c) ==
    {icol + (irow * ColCount) :
        icol \in {i \in indexify(rotate(h)[1], c.x) : i < ColCount},
        irow \in {i \in indexify(rotate(h)[2], c.y) : i < RowCount}}

MaxPadLen == 3

TIME_BIN_WIDTH == 1563

\* the bins of the hash map besides bin 0, as multiples of the bin width
PadBins == {1, 2, 3, 5}

\* spectrum: the map starts with the entry (0, 0), every other bin holds at
\* least one hit, and the pairs are sorted by time
RECURSIVE PadInputs(_)
PadInputs(n) ==
    IF n = 1
    THEN {[times |-> <<0>>, intensities |-> <<i>>] : i \in {0, 1}}
    ELSE PadInputs(n - 1) \cup
         UNION {{[times |-> Append(p.times, b * TIME_BIN_WIDTH),
                  intensities |-> Append(p.intensities, i)] :
                     b \in {x \in PadBins : \A k \in 1..(n - 1) :
                                               x * TIME_BIN_WIDTH > p.times[k]},
                     i \in {1, 2}} :
                p \in {q \in PadInputs(n - 1) : Len(q.times) = n - 1}}

\* the loop of zero_pad from sample k on
RECURSIVE zero_pad_loop(_, _, _, _, _, _)
zero_pad_loop(times, intensities, k, prev_time, pad_time, pad_intensity) ==
    IF k > Len(times) \/ k > Len(intensities)
    THEN [times |-> Append(pad_time, pad_time[Len(pad_time)] + TIME_BIN_WIDTH),
          intensities |-> Append(pad_intensity, 0)]
    ELSE LET gap == times[k] - prev_time # TIME_BIN_WIDTH
             t1 == IF gap THEN pad_time \o <<prev_time + TIME_BIN_WIDTH,
                                            times[k] - TIME_BIN_WIDTH>>
                   ELSE pad_time
             i1 == IF gap THEN pad_intensity \o <<0, 0>> ELSE pad_intensity
         IN  zero_pad_loop(times, intensities, k + 1, times[k],
                           Append(t1, times[k]), Append(i1, intensities[k]))

zero_pad(times, intensities) ==
    zero_pad_loop(times, intensities, 1, times[1],
                  <<times[1] - TIME_BIN_WIDTH>>, <<0>>)

InitPad ==
    /\ file = <<>> /\ fpos = 0 /\ buffer = <<>> /\ buffer_index = 0
    /\ pulse = DefaultPulse /\ trolls = 0 /\ hrolls = 0
    /\ ptdc = Big(0) /\ ptoa = Big(0) /\ ptri = 0
    /\ pc = "idle" /\ out = <<>>
    /\ cpulse = DefaultPulse /\ orig = DefaultPulse /\ phase = "off"
    /\ CodecIdle
    /\ ArchiveIdle
    /\ ImageIdle
    /\ PixelIdle /\ CompressIdle /\ cpc = "off" /\ MaskIdle /\ mpc = "off"
    /\ pad_in \in PadInputs(MaxPadLen)
    /\ pad_out = [status |-> "none", times |-> <<>>, intensities |-> <<>>]

padRest == <<readerVars, clusterVars, codecVars, archiveVars, imageVars,
             pixel_in, vecs, collection, labelled, pieces, taken, tpx3c_file, cpc,
             mask_buffer, data_len, mask_runs, mpc>>

\* plot_spectrum: zero_pad on the axes of spectrum
ZeroPad ==
    /\ pad_out.status = "none"
    /\ pad_out' = [status |-> "returned",
                   times |-> zero_pad(pad_in.times, pad_in.intensities).times,
                   intensities |-> zero_pad(pad_in.times, pad_in.intensities).intensities]
    /\ UNCHANGED <<pad_in, padRest>>

NextPad == ZeroPad

SpecPad == InitPad /\ [][NextPad]_vars

\* the padding as stated: one zero a bin width before the first sample, two
\* zeros inside every gap between consecutive samples, one zero a bin width
\* after the last sample
RECURSIVE PaddedFrom(_, _, _)
PaddedFrom(times, intensities, k) ==
    IF k > Len(times)
    THEN [times |-> <<times[Len(times)] + TIME_BIN_WIDTH>>, intensities |-> <<0>>]
    ELSE LET rest == PaddedFrom(times, intensities, k + 1)
             gap == k > 1 /\ times[k] - times[k - 1] # TIME_BIN_WIDTH
             zt == IF gap THEN <<times[k - 1] + TIME_BIN_WIDTH, times[k] - TIME_BIN_WIDTH>>
                   ELSE <<>>
             zi == IF gap THEN <<0, 0>> ELSE <<>>
         IN  [times |-> zt \o <<times[k]>> \o rest.times,
              intensities |-> zi \o <<intensities[k]>> \o rest.intensities]

Padded(times, intensities) ==
    LET rest == PaddedFrom(times, intensities, 1)
    IN  [times |-> <<times[1] - TIME_BIN_WIDTH>> \o rest.times,
         intensities |-> <<0>> \o rest.intensities]

NonDecreasing(s) == \A k \in 1..(Len(s) - 1) : s[k] <= s[k + 1]

\* C36: zero_pad keeps every input sample in order and adds only zero
\* samples: one a bin width before the first sample, one a bin width after the
\* last, and two (at prev + bin width and next - bin width) for each pair of
\* consecutive samples that are not one bin width apart; the output time axis
\* is non-decreasing.
C36_ZeroPadAsStated ==
    pad_out.status = "returned" =>
        /\ pad_out.times = Padded(pad_in.times, pad_in.intensities).times
        /\ pad_out.intensities = Padded(pad_in.times, pad_in.intensities).intensities
        /\ NonDecreasing(pad_out.times)

\* ------------------------------------------------------------------------
\* Further claims about the two readers
\* ------------------------------------------------------------------------
\* the position in out of the k-th pulse TPX3Reader has yielded
NthPulse(k) ==
    CHOOSE i \in Yielded : Cardinality({j \in Yielded : j <= i}) = k

\* C37: when both readers have read the file to its end, the k-th value
\* yielded by TDCReader equals the time field of the k-th pulse yielded by
\* TPX3Reader, for every k for which both exist.
C37_TdcIsPulseTime ==
    (ipc = "done" /\ pc = "idle" /\ Nones >= 1) =>
        \A k \in 1..Len(tdc_out) :
            k <= PulsesYielded => tdc_out[k] = out[NthPulse(k)].pulse.time

\* ------------------------------------------------------------------------
\* Further claims about label_hits
\* ------------------------------------------------------------------------
\* C38: label_hits returns on every decoded pulse, and afterwards every hit
\* of the pulse has a label between 1 and the clusters value of the pulse,
\* also when several hits have the same (toa, col, row).
C38_EveryHitLabelled ==
    /\ phase = "decoded" => label_hits(cpulse).clusters \in 0..Len(cpulse.hits)
    /\ phase = "labelled" =>
          \A i \in 1..Len(cpulse.hits) :
              cpulse.hits[i].label >= 1 /\ cpulse.hits[i].label <= cpulse.clusters

\* two hits with the same (toa, col, row) and a third one next to them have
\* been labelled, the two equal hits differently
C38_Witness ==
    /\ phase = "labelled"
    /\ \E i, j, k \in 1..Len(cpulse.hits) :
          /\ i < j /\ HitEq(cpulse.hits[i], cpulse.hits[j])
          /\ is_proximal(cpulse.hits[k], cpulse.hits[i])
          /\ cpulse.hits[i].label # cpulse.hits[j].label
          /\ cpulse.hits[k].label = cpulse.hits[j].label

\* ------------------------------------------------------------------------
\* Further claims about the archive writer
\* ------------------------------------------------------------------------
\* C39: the spectrum count declared in the header, cols * rows, fixed when
\* the writer is created, equals the number of spectrum elements that
\* stream_convert_and_save has written.
C39_DeclaredCountIsWritten ==
    wpc = "ok" => header.number_of_spectra = Len(spectra)

\* ------------------------------------------------------------------------
\* image.rs: to_masking_image.  The pulses of the file arrive in runs of
\* equal pulses; the buffer holds the entries that are not 0.
\* ------------------------------------------------------------------------
MaxMaskRuns == 2

MASK_SIDE == 256
PULSES_PER_UNIT == 1000

MaskHit(col, row, size) == [col |-> col, row |-> row, size |-> size]

\* a pulse without hits, one with a single hit, one with a single hit and a
\* cluster of three
MaskPulses ==
    {<<>>, <<MaskHit(10, 20, 0)>>, <<MaskHit(10, 20, 1), MaskHit(255, 255, 3)>>}

MaskRepeats == {1, PULSES_PER_UNIT - 1, PULSES_PER_UNIT}

\* buffer[hit.col + hit.row * 256] += 1 for the hits with size < 2, n times
RECURSIVE mask_hits(_, _, _)
mask_hits(b, hits, n) ==
    IF hits = <<>> THEN b
    ELSE LET i == hits[1].col + (hits[1].row * MASK_SIDE)
             b1 == IF hits[1].size < 2
                   THEN [k \in (DOMAIN b) \cup {i} |->
                            (IF k \in DOMAIN b THEN b[k] ELSE 0) + (IF k = i THEN n ELSE 0)]
                   ELSE b
         IN  mask_hits(b1, Tail(hits), n)

InitMask ==
    /\ file = <<>> /\ fpos = 0 /\ buffer = <<>> /\ buffer_index = 0
    /\ pulse = DefaultPulse /\ trolls = 0 /\ hrolls = 0
    /\ ptdc = Big(0) /\ ptoa = Big(0) /\ ptri = 0
    /\ pc = "idle" /\ out = <<>>
    /\ cpulse = DefaultPulse /\ orig = DefaultPulse /\ phase = "off"
    /\ CodecIdle
    /\ ArchiveIdle
    /\ ImageIdle
    /\ PixelIdle /\ PadIdle /\ CompressIdle /\ cpc = "off"
    /\ mask_buffer = [len |-> MASK_SIDE * MASK_SIDE, counts |-> <<>>]
    /\ data_len = 0 /\ mask_runs = <<>> /\ mpc = "reading"

maskRest == <<readerVars, clusterVars, codecVars, archiveVars, imageVars,
              pixel_in, vecs, pad_in, pad_out,
              collection, labelled, pieces, taken, tpx3c_file, cpc>>

\* the loop over the pulses of the reader, for a run of n equal pulses
MaskPulse ==
    /\ mpc = "reading" /\ Len(mask_runs) < MaxMaskRuns
    /\ \E hits \in MaskPulses, n \in MaskRepeats :
          /\ mask_runs' = Append(mask_runs, [hits |-> hits, n |-> n])
          /\ mask_buffer' = [mask_buffer EXCEPT !.counts = mask_hits(@, hits, n)]
          /\ data_len' = data_len + n
    /\ UNCHANGED <<mpc, maskRest>>

\* the reader is at its end: buffer.iter().map(|v| v / (data_len / 1000))
MaskReturn ==
    /\ mpc = "reading"
    /\ IF data_len \div PULSES_PER_UNIT = 0
       THEN mpc' = "panic" /\ UNCHANGED mask_buffer
       ELSE /\ mpc' = "returned"
            /\ mask_buffer' =
                  [mask_buffer EXCEPT !.counts =
                      [k \in DOMAIN @ |-> @[k] \div (data_len \div PULSES_PER_UNIT)]]
    /\ UNCHANGED <<data_len, mask_runs, maskRest>>

NextMask == MaskPulse \/ MaskReturn

SpecMask == InitMask /\ [][NextMask]_vars

\* C40: to_masking_image returns a buffer of 65,536 normalised counts for
\* every input file, also for a file that yields fewer than 1000 pulses and
\* for the empty file, and never aborts.
C40_MaskingImageReturned ==
    mpc # "reading" =>
        /\ mpc = "returned"
        /\ mask_buffer.len = 65536

====
